---- MODULE Spec2Model ----
(***************************************************************************)
(* Running-dinner planner: the permutation-based Solution encoding, its    *)
(* decoding into per-team paths, the raters and the genetic optimizer.     *)
(*                                                                         *)
(* Conventions.  Python lists are TLA+ sequences, so list position k of    *)
(* the source is position k+1 here; team ids and the VALUES stored in      *)
(* guest_indices stay 0-based as in the source.  A float score is kept as  *)
(* the exact fraction [num, den] the source's expression denotes; den = 0  *)
(* stands for the ZeroDivisionError that expression raises.                *)
(***************************************************************************)
EXTENDS Integers, Sequences, FiniteSets, TLC

(***************************************************************************)
(* Bounds of the model.                                                    *)
(***************************************************************************)
\* Largest team_count drawn.
MaxTeams == 4
\* Largest distance to the final location drawn for a distance vector.
MaxDist == 2
\* Largest walking distance drawn for a distance matrix entry.
MaxLegDist == 1
\* The optimizer's population size, mutations per member and iteration cap,
\* scaled down from the source's 30, 5 and 50 (optimizer.py lines 14-16) so
\* that the generations can be enumerated.
CANDIDATE_NUMBER_PER_GENERATION == 2
MUTATIONS_PER_SOLUTION == 1
MAX_ITERATIONS == 3

\* Longest list of (weight, rater) pairs drawn for a CombinedSolutionRater,
\* and the largest weight drawn.
MaxRaters == 3
MaxWeight == 2

(***************************************************************************)
(* Program constants.                                                      *)
(***************************************************************************)
ROUNDS_WITHOUT_CHANGE_TO_BREAK == 3

(***************************************************************************)
(* Small helpers.                                                          *)
(***************************************************************************)
Range(s) == {s[i] : i \in DOMAIN s}

Min2(a, b) == IF a <= b THEN a ELSE b

RECURSIVE SumSeq(_)
SumSeq(s) == IF Len(s) = 0 THEN 0 ELSE Head(s) + SumSeq(Tail(s))

\* The sum of f[x] over the x of S.
RECURSIVE SumOver(_, _)
SumOver(f, S) ==
    IF S = {} THEN 0
    ELSE LET x == CHOOSE y \in S : TRUE IN f[x] + SumOver(f, S \ {x})

\* n / d as a fraction with a non-negative denominator; d = 0 is kept as
\* den = 0, the ZeroDivisionError of the source's division.
Fraction(n, d) == IF d < 0 THEN [num |-> 0 - n, den |-> 0 - d] ELSE [num |-> n, den |-> d]

\* The (team_count, course_count) arguments drawn: a multi-course dinner
\* whose team count is a positive multiple of the course count.
Shapes == {sh \in (1..MaxTeams) \X (2..MaxTeams) : sh[1] % sh[2] = 0}

\* All orders of the ids 0..n-1 (what random.shuffle can leave behind).
Permutations0(n) ==
    {p \in [1..n -> 0..(n - 1)] : \A a, b \in 1..n : p[a] = p[b] => a = b}

(***************************************************************************)
(* solution.py: DinnerGroup, Solution.                                     *)
(***************************************************************************)
DinnerGroup(cooking_team, guest_indices) ==
    [cooking_team |-> cooking_team, guest_indices |-> guest_indices]

\* The mutant of Solution_init_ok: only the groups of the first course are
\* checked.
Solution_init_ok_FirstCourseOnly(groups_per_course) ==
    LET courses == Len(groups_per_course)
    IN  /\ courses # 0
        /\ \A host_idx \in 1..Len(groups_per_course[1]) :
             Len(groups_per_course[1][host_idx].guest_indices) = courses - 1

\* Solution.__init__: the sanity check of the guest index lengths.
\* TRUE iff the constructor returns, FALSE iff it raises TypeError.
Solution_init_ok(groups_per_course) ==
    LET courses == Len(groups_per_course)
    IN  /\ courses # 0
        /\ \A course_idx \in 1..courses :
             \A host_idx \in 1..Len(groups_per_course[course_idx]) :
               Len(groups_per_course[course_idx][host_idx].guest_indices) = courses - 1

CourseCountOf(sol) == Len(sol)
MealGroupCountOf(sol) == Len(sol[1])

\* The cells (course, position) of a solution.
Cells(sol) == {cell \in (1..Len(sol)) \X (1..MealGroupCountOf(sol)) : TRUE}

\* A valid Solution: every team id is the cooking_team of exactly one cell,
\* every group has courses-1 guest indices, each in 0..meal_group_count-1.
ValidSolution(sol, team_count) ==
    /\ Solution_init_ok(sol)
    /\ \A c \in 1..Len(sol) : Len(sol[c]) = Len(sol[1])
    /\ \A t \in 0..(team_count - 1) :
         Cardinality({cell \in Cells(sol) : sol[cell[1]][cell[2]].cooking_team = t}) = 1
    /\ \A cell \in Cells(sol) :
         /\ sol[cell[1]][cell[2]].cooking_team \in 0..(team_count - 1)
         /\ \A k \in 1..(Len(sol) - 1) :
              sol[cell[1]][cell[2]].guest_indices[k] \in 0..(MealGroupCountOf(sol) - 1)

\* Every valid Solution of one shape.
ValidSolutions(team_count, course_count) ==
    LET mgc == team_count \div course_count
    IN  { [c \in 1..course_count |->
             [g \in 1..mgc |->
                DinnerGroup(p[(c - 1) * mgc + g], gi[c][g])]] :
          p \in Permutations0(team_count),
          gi \in [1..course_count -> [1..mgc -> [1..(course_count - 1) -> 0..(mgc - 1)]]] }

\* tests.py, test_get_paths_per_host_simple: 9 teams, 3 courses.
TestSolutionSimple ==
    << << DinnerGroup(5, <<0, 0>>), DinnerGroup(1, <<1, 1>>), DinnerGroup(3, <<2, 2>>) >>,
       << DinnerGroup(6, <<0, 0>>), DinnerGroup(0, <<1, 1>>), DinnerGroup(8, <<2, 2>>) >>,
       << DinnerGroup(7, <<0, 0>>), DinnerGroup(4, <<1, 1>>), DinnerGroup(2, <<2, 2>>) >> >>

\* tests.py, test_get_paths_per_host_complex: 9 teams, 3 courses.
TestSolutionComplex ==
    << << DinnerGroup(4, <<0, 0>>), DinnerGroup(1, <<1, 2>>), DinnerGroup(3, <<2, 1>>) >>,
       << DinnerGroup(6, <<1, 1>>), DinnerGroup(0, <<0, 2>>), DinnerGroup(8, <<2, 0>>) >>,
       << DinnerGroup(7, <<2, 1>>), DinnerGroup(5, <<1, 0>>), DinnerGroup(2, <<0, 2>>) >> >>

TeamCountOf(sol) == Len(sol) * MealGroupCountOf(sol)

(***************************************************************************)
(* Solution.get_paths_per_host.                                            *)
(***************************************************************************)
\* The mutant of PathEntry: the looked-up index is appended, not the team
\* cooking at that index.
PathEntry_IndexNotTeam(sol, active_course_idx, group_idx, course_idx) ==
    IF course_idx = active_course_idx
    THEN sol[active_course_idx][group_idx].cooking_team
    ELSE LET guest_course_idx == IF active_course_idx < course_idx
                                 THEN active_course_idx
                                 ELSE active_course_idx - 1
         IN  sol[course_idx][group_idx].guest_indices[guest_course_idx]

\* A mutant of PathEntry: the guest index is read from the host's own group,
\* at the position of the other course in its list.
PathEntry_OwnGroupIndices(sol, active_course_idx, group_idx, course_idx) ==
    IF course_idx = active_course_idx
    THEN sol[active_course_idx][group_idx].cooking_team
    ELSE LET guest_course_idx == IF course_idx < active_course_idx
                                 THEN course_idx
                                 ELSE course_idx - 1
             host_index == sol[active_course_idx][group_idx].guest_indices[guest_course_idx]
         IN  sol[course_idx][host_index + 1].cooking_team

\* The mutant of PathEntry: the guest index is read from the first group of
\* the other course, whatever the position of the host.
PathEntry_FirstGroupIndices(sol, active_course_idx, group_idx, course_idx) ==
    IF course_idx = active_course_idx
    THEN sol[active_course_idx][group_idx].cooking_team
    ELSE LET guest_course_idx == IF active_course_idx < course_idx
                                 THEN active_course_idx
                                 ELSE active_course_idx - 1
             host_index == sol[course_idx][1].guest_indices[guest_course_idx]
         IN  sol[course_idx][host_index + 1].cooking_team

\* Lines 83-98: one entry of the path of the host of a later course.  With
\* courses numbered from 1, the source's 0-based guest_course_idx
\* (active - 1 if active < course, else active - 2) is list position
\* guest_course_idx + 1, i.e. active or active - 1.  The guest index is read
\* from the group at position group_idx of course course_idx (line 96).
PathEntry(sol, active_course_idx, group_idx, course_idx) ==
    IF course_idx = active_course_idx
    THEN sol[active_course_idx][group_idx].cooking_team
    ELSE LET guest_course_idx == IF active_course_idx < course_idx
                                 THEN active_course_idx
                                 ELSE active_course_idx - 1
             host_index == sol[course_idx][group_idx].guest_indices[guest_course_idx]
         IN  sol[course_idx][host_index + 1].cooking_team

\* The list [f[1], ..., f[n]], built by appending as the source does.
RECURSIVE ListOf(_, _)
ListOf(f, n) == IF n = 0 THEN <<>> ELSE Append(ListOf(f, n - 1), f[n])

\* Lines 72-74: the path of the host of course 0 at position group_idx: the
\* cooking teams found at the same position in every course.
FirstCoursePath(sol, group_idx) ==
    ListOf([course_idx \in 1..Len(sol) |-> sol[course_idx][group_idx].cooking_team],
           Len(sol))

\* Lines 80-98: the path of the host of a later course.
LaterCoursePath(sol, active_course_idx, group_idx) ==
    ListOf([course_idx \in 1..Len(sol) |->
               PathEntry(sol, active_course_idx, group_idx, course_idx)],
           Len(sol))

\* Lines 69-74: the dict after the first group_idx groups of course 0.  An
\* assignment to a key already present replaces its value.
RECURSIVE FirstCoursePaths(_, _)
FirstCoursePaths(sol, group_idx) ==
    IF group_idx = 0 THEN <<>>
    ELSE (sol[1][group_idx].cooking_team :> FirstCoursePath(sol, group_idx))
           @@ FirstCoursePaths(sol, group_idx - 1)

\* Lines 77-98: the dict after the first k cells of the later courses,
\* cell k being position 1 + (k-1) mod meal_group_count of course
\* 2 + (k-1) div meal_group_count.
RECURSIVE LaterCoursePaths(_, _)
LaterCoursePaths(sol, k) ==
    IF k = 0 THEN FirstCoursePaths(sol, MealGroupCountOf(sol))
    ELSE LET active_course_idx == 2 + ((k - 1) \div MealGroupCountOf(sol))
             group_idx == 1 + ((k - 1) % MealGroupCountOf(sol))
             host == sol[active_course_idx][group_idx].cooking_team
         IN  (host :> LaterCoursePath(sol, active_course_idx, group_idx))
               @@ LaterCoursePaths(sol, k - 1)

\* get_paths_per_host, lines 62-99: the dict from host to path.
get_paths_per_host(sol) ==
    LaterCoursePaths(sol, (Len(sol) - 1) * MealGroupCountOf(sol))

(***************************************************************************)
(* rating.py: DiversitySolutionRater.                                      *)
(***************************************************************************)
\* collections.Counter(path): each element with its number of occurrences,
\* counted element by element; CounterOf(path, k) counts the first k.
RECURSIVE CounterOf(_, _)
CounterOf(path, k) ==
    IF k = 0 THEN <<>>
    ELSE LET counted == CounterOf(path, k - 1)
             v == path[k]
         IN  (v :> (IF v \in DOMAIN counted THEN counted[v] + 1 ELSE 1)) @@ counted

Counter(path) == CounterOf(path, Len(path))

\* Counter & Counter: the minimum of the counts, positive counts only.
CounterAnd(c1, c2) ==
    [v \in {w \in (DOMAIN c1) \cap (DOMAIN c2) : Min2(c1[w], c2[w]) > 0} |->
        Min2(c1[v], c2[v])]

\* Lines 72-81: the overlap count.  team1 and team2 run over
\* range(len(paths_per_host)); pair number i of the n*n pairs is
\* (team1, team2) = (i div n, i mod n).  The Counter of a team's path, which
\* the source rebuilds for every pair, is built once per team.
DiversityOverlaps(paths_per_host) ==
    LET n == Cardinality(DOMAIN paths_per_host)
        counters == ListOf([t \in 1..n |-> Counter(paths_per_host[t - 1])], n)
        term(team1, team2) ==
            IF team1 # team2
            THEN LET intersections == CounterAnd(counters[team1 + 1], counters[team2 + 1])
                     len == Cardinality(DOMAIN intersections)
                 IN  IF len > 1 THEN len - 1 ELSE 0
            ELSE 0
    IN  SumSeq(ListOf([i \in 1..(n * n) |-> term((i - 1) \div n, (i - 1) % n)], n * n))

\* The mutant of DiversityMaximumOverlaps: normalised by the teams of one
\* course instead of by all teams.
DiversityMaximumOverlaps_PerCourse(paths_per_host) ==
    LET course_count == Len(paths_per_host[0])
    IN  (course_count - 1) * (course_count - 1)
          * (Cardinality(DOMAIN paths_per_host) \div course_count)

\* The mutant of DiversityMaximumOverlaps: (course_count - 1) is taken once,
\* not squared.
DiversityMaximumOverlaps_NotSquared(paths_per_host) ==
    LET course_count == Len(paths_per_host[0])
    IN  (course_count - 1) * Cardinality(DOMAIN paths_per_host)

\* Lines 83-85: teams_per_course_count is len(paths_per_host), the number
\* of teams.
DiversityMaximumOverlaps(paths_per_host) ==
    LET course_count == Len(paths_per_host[0])
        teams_per_course_count == Cardinality(DOMAIN paths_per_host)
    IN  (course_count - 1) * (course_count - 1) * teams_per_course_count

\* Lines 73-89: the error rate_solution ends with, "none" when it returns.
\* The pair loops read paths_per_host[team] for every team in
\* range(len(paths_per_host)) once there are two teams, line 83 reads
\* paths_per_host[0], and line 89 divides by maximum_overlaps.
DiversitySolutionRater_raises(paths_per_host) ==
    LET n == Cardinality(DOMAIN paths_per_host)
    IN  IF n >= 2 /\ \E team \in 0..(n - 1) : team \notin DOMAIN paths_per_host
        THEN "KeyError"
        ELSE IF 0 \notin DOMAIN paths_per_host
        THEN "KeyError"
        ELSE IF DiversityMaximumOverlaps(paths_per_host) = 0
        THEN "ZeroDivisionError"
        ELSE "none"

\* Line 89: (1.0 - overlaps / maximum_overlaps) ** 2, as the fraction
\* (maximum_overlaps - overlaps)^2 / maximum_overlaps^2.
DiversitySolutionRater_rate_solution(paths_per_host) ==
    LET overlaps == DiversityOverlaps(paths_per_host)
        maximum_overlaps == DiversityMaximumOverlaps(paths_per_host)
    IN  [num |-> (maximum_overlaps - overlaps) * (maximum_overlaps - overlaps),
         den |-> maximum_overlaps * maximum_overlaps]

\* Comparisons of two scores (den > 0).
ScoreGeq(a, b) == a.num * b.den >= b.num * a.den
ScoreLess(a, b) == a.num * b.den < b.num * a.den
ScoreIs(a, n) == a.den > 0 /\ a.num = n * a.den
ScoreInUnitInterval(a) == a.den > 0 /\ 0 <= a.num /\ a.num <= a.den

(***************************************************************************)
(* rating.py: FinalLocationDistanceSolutionRater.                          *)
(***************************************************************************)
\* list.remove(v): the list without the first occurrence of v.
RemoveFirst(list, v) ==
    LET first == CHOOSE i \in DOMAIN list :
                    list[i] = v /\ \A k \in 1..(i - 1) : list[k] # v
    IN  [k \in 1..(Len(list) - 1) |-> IF k < first THEN list[k] ELSE list[k + 1]]

MinOf(list) == CHOOSE v \in Range(list) : \A w \in Range(list) : v <= w
MaxOf(list) == CHOOSE v \in Range(list) : \A w \in Range(list) : v >= w

\* Lines 105-108 and 112-115: i more rounds of taking the smallest
\* (largest) remaining distance out of the working copy, each adding its
\* square times teams_per_course.
RECURSIVE FinalSquaredDistance(_, _, _, _, _)
FinalSquaredDistance(smallest, tmp, rounds, teams_per_course, acc) ==
    IF rounds = 0 THEN acc
    ELSE LET val == IF smallest THEN MinOf(tmp) ELSE MaxOf(tmp)
         IN  FinalSquaredDistance(smallest, RemoveFirst(tmp, val), rounds - 1,
                                  teams_per_course, acc + (val * val) * teams_per_course)

\* __init__, lines 98-115.
FinalLocationDistanceSolutionRater_init(dist_to_final_loc, teams_per_course) ==
    [dist_to_final_loc |-> dist_to_final_loc,
     min_squared_distance |->
        FinalSquaredDistance(TRUE, dist_to_final_loc, teams_per_course, teams_per_course, 0),
     max_squared_distance |->
        FinalSquaredDistance(FALSE, dist_to_final_loc, teams_per_course, teams_per_course, 0)]

\* Lines 124-128: the squared distance of every team's last host to the
\* final location, summed.
FinalSquaredDistanceOf(self, paths_per_host) ==
    SumOver([team \in DOMAIN paths_per_host |->
               LET path == paths_per_host[team]
                   last_location == path[Len(path)]
               IN  self.dist_to_final_loc[last_location + 1]
                     * self.dist_to_final_loc[last_location + 1]],
            DOMAIN paths_per_host)

\* rate_solution, lines 117-132:
\* 1.0 - (squared_distance - min) / (max - min) = (max - squared_distance) / (max - min).
FinalLocationDistanceSolutionRater_rate_solution(self, paths_per_host) ==
    Fraction(self.max_squared_distance - FinalSquaredDistanceOf(self, paths_per_host),
             self.max_squared_distance - self.min_squared_distance)

(***************************************************************************)
(* rating.py: InterDistanceSolutionRater.                                  *)
(***************************************************************************)
\* sys.maxsize, the initial extremum of a MINIMUM search (line 161).  Only
\* ever compared with distances here: with at least two courses every
\* MINIMUM search finds a candidate, so it is never squared.
sys_maxsize == 2147483647

\* distance_matrix[i][k] with Python's indexing: a negative index counts
\* from the end of the list.
PyIndex(list, i) == IF i < 0 THEN list[Len(list) + i + 1] ELSE list[i + 1]
Distance(distance_matrix, i, k) == PyIndex(PyIndex(distance_matrix, i), k)

\* Lines 158-165.
Comparator(extrema_type, x, y) == IF extrema_type = "MINIMUM" THEN x > y ELSE x < y
InitExtremaValue(extrema_type) == IF extrema_type = "MINIMUM" THEN sys_maxsize ELSE 0

\* Lines 175-182: the scan over all (location1, location2), pair number i
\* of n*n being (i div n, i mod n); st is (distance_extrema,
\* current_location, last_location).
RECURSIVE ScanPairs(_, _, _, _, _)
ScanPairs(distance_matrix, extrema_type, locations_used, i, st) ==
    LET n == Len(distance_matrix)
        location1 == i \div n
        location2 == i % n
    IN  IF i >= n * n THEN st
        ELSE IF /\ location1 \notin Range(locations_used)
                /\ location1 # location2
                /\ location2 \notin Range(locations_used)
                /\ Comparator(extrema_type, st.distance_extrema,
                              Distance(distance_matrix, location1, location2))
             THEN ScanPairs(distance_matrix, extrema_type, locations_used, i + 1,
                            [distance_extrema |-> Distance(distance_matrix, location1, location2),
                             current_location |-> location1,
                             last_location |-> location2])
             ELSE ScanPairs(distance_matrix, extrema_type, locations_used, i + 1, st)

\* Lines 191-195: the scan over location2 from current_location; st is
\* (distance_extrema, last_location).
RECURSIVE ScanNext(_, _, _, _, _, _)
ScanNext(distance_matrix, extrema_type, locations_used, current_location, location2, st) ==
    IF location2 >= Len(distance_matrix) THEN st
    ELSE IF /\ current_location # location2
            /\ location2 \notin Range(locations_used)
            /\ Comparator(extrema_type, st.distance_extrema,
                          Distance(distance_matrix, current_location, location2))
         THEN ScanNext(distance_matrix, extrema_type, locations_used, current_location,
                       location2 + 1,
                       [distance_extrema |-> Distance(distance_matrix, current_location, location2),
                        last_location |-> location2])
         ELSE ScanNext(distance_matrix, extrema_type, locations_used, current_location,
                       location2 + 1, st)

\* Lines 188-197: the remaining courses - 2 locations of one path; st is
\* (locations_used, sum_of_square_distances, last_location).
RECURSIVE CompletePath(_, _, _, _)
CompletePath(distance_matrix, extrema_type, rounds, st) ==
    IF rounds <= 0 THEN st
    ELSE LET current_location == st.last_location
             found == ScanNext(distance_matrix, extrema_type, st.locations_used,
                               current_location, 0,
                               [distance_extrema |-> InitExtremaValue(extrema_type),
                                last_location |-> st.last_location])
         IN  CompletePath(distance_matrix, extrema_type, rounds - 1,
                 [locations_used |-> Append(st.locations_used, found.last_location),
                  sum_of_square_distances |->
                      st.sum_of_square_distances
                        + found.distance_extrema * found.distance_extrema,
                  last_location |-> found.last_location])

\* Lines 170-197: one path per team of a course; st is (locations_used,
\* sum_of_square_distances).
RECURSIVE FindPaths(_, _, _, _, _)
FindPaths(distance_matrix, courses, extrema_type, teams, st) ==
    IF teams <= 0 THEN st
    ELSE LET first == ScanPairs(distance_matrix, extrema_type, st.locations_used, 0,
                                [distance_extrema |-> InitExtremaValue(extrema_type),
                                 current_location |-> -1,
                                 last_location |-> -1])
             rest == CompletePath(distance_matrix, extrema_type, courses - 2,
                        [locations_used |->
                             Append(Append(st.locations_used, first.current_location),
                                    first.last_location),
                         sum_of_square_distances |->
                             st.sum_of_square_distances
                               + first.distance_extrema * first.distance_extrema,
                         last_location |-> first.last_location])
         IN  FindPaths(distance_matrix, courses, extrema_type, teams - 1,
                       [locations_used |-> rest.locations_used,
                        sum_of_square_distances |-> rest.sum_of_square_distances])

\* _find_distance_extremas, lines 148-199.
find_distance_extremas(distance_matrix, courses, extrema_type) ==
    courses * FindPaths(distance_matrix, courses, extrema_type,
                        Len(distance_matrix) \div courses,
                        [locations_used |-> <<>>,
                         sum_of_square_distances |-> 0]).sum_of_square_distances

\* __init__, lines 201-213 (the matrix is non-empty and square).
InterDistanceSolutionRater_init(distance_matrix, courses) ==
    [distance_matrix |-> distance_matrix,
     min_square_distance |-> find_distance_extremas(distance_matrix, courses, "MINIMUM"),
     max_square_distance |-> find_distance_extremas(distance_matrix, courses, "MAXIMUM")]

\* Lines 224-229: the squared length of every leg of every path, summed.
InterSquaredDistances(self, paths_per_host) ==
    SumOver([host \in DOMAIN paths_per_host |->
               LET path == paths_per_host[host]
               IN  SumSeq([i \in 1..(Len(path) - 1) |->
                             Distance(self.distance_matrix, path[i], path[i + 1])
                               * Distance(self.distance_matrix, path[i], path[i + 1])])],
            DOMAIN paths_per_host)

\* rate_solution, lines 215-232:
\* 1.0 - (squared_distances - min) / (max - min) = (max - squared_distances) / (max - min).
InterDistanceSolutionRater_rate_solution(self, paths_per_host) ==
    Fraction(self.max_square_distance - InterSquaredDistances(self, paths_per_host),
             self.max_square_distance - self.min_square_distance)

(***************************************************************************)
(* rating.py: CombinedSolutionRater.                                       *)
(***************************************************************************)
\* tests.py, lines 93-99: a rater that returns a fixed value whatever the
\* paths.
DummySolutionRater(value) == [kind |-> "dummy", value |-> value]

\* item[1].rate_solution(paths_per_host) of such a rater.
Rater_rate_solution(rater, paths_per_host) == rater.value

\* Sum and integer multiple of scores kept as fractions.
ScoreAdd(a, b) == [num |-> a.num * b.den + b.num * a.den, den |-> a.den * b.den]
ScoreTimes(weight, a) == [num |-> weight * a.num, den |-> a.den]

\* The mutant of CombinedTotalWeight: the number of raters instead of the
\* sum of their weights.
CombinedTotalWeight_Count(solution_raters) == Len(solution_raters)

\* Line 41: reduce(+) over the weights of a non-empty list.
CombinedTotalWeight(solution_raters) ==
    SumSeq([i \in 1..Len(solution_raters) |-> solution_raters[i][1]])

\* __init__, lines 30-41.  next() takes one value out of the generator of
\* line 38: the test of the first pair's weight.
CombinedSolutionRater_init(solution_raters) ==
    IF Len(solution_raters) = 0
    THEN [outcome |-> "ValueError"]
    ELSE IF solution_raters[1][1] <= 0
    THEN [outcome |-> "ValueError"]
    ELSE [outcome |-> "constructed",
          solution_raters |-> solution_raters,
          total_weight |-> CombinedTotalWeight(solution_raters)]

\* Lines 51-52: reduce(+) over weight * score of the first k raters, k >= 1.
RECURSIVE CombinedWeightedSum(_, _, _)
CombinedWeightedSum(solution_raters, paths_per_host, k) ==
    LET term == ScoreTimes(solution_raters[k][1],
                           Rater_rate_solution(solution_raters[k][2], paths_per_host))
    IN  IF k = 1 THEN term
        ELSE ScoreAdd(CombinedWeightedSum(solution_raters, paths_per_host, k - 1), term)

\* rate_solution, lines 43-55: score / self.total_weight.
CombinedSolutionRater_rate_solution(self, paths_per_host) ==
    LET score == CombinedWeightedSum(self.solution_raters, paths_per_host,
                                     Len(self.solution_raters))
    IN  Fraction(score.num, score.den * self.total_weight)

(***************************************************************************)
(* initializer.py: RandomInitializer, FinalLocationInitializer.            *)
(***************************************************************************)
\* The mutant of RandomInitializer_create_initial_solution: host_index
\* starts again at 0 in every course.
RandomInitializer_HostIndexPerCourse(team_count, course_count, random_indices) ==
    LET meal_group_count == team_count \div course_count
    IN  [course \in 1..course_count |->
           [meal_group \in 1..meal_group_count |->
              DinnerGroup(random_indices[meal_group],
                          [i \in 1..(course_count - 1) |-> meal_group - 1])]]

\* create_initial_solution, lines 27-44, for the order random_indices that
\* random.shuffle left: cell (course, meal_group) takes random_indices at
\* host_index = course * meal_group_count + meal_group.
RandomInitializer_create_initial_solution(team_count, course_count, random_indices) ==
    LET meal_group_count == team_count \div course_count
    IN  [course \in 1..course_count |->
           [meal_group \in 1..meal_group_count |->
              DinnerGroup(random_indices[(course - 1) * meal_group_count + meal_group],
                          [i \in 1..(course_count - 1) |-> meal_group - 1])]]

\* list.insert of index i into a list sorted by descending distance, behind
\* every entry that is not closer than i: one step of a stable sort.
StableInsert(sorted, i, dist_to_final_loc) ==
    LET before == Cardinality({k \in 1..Len(sorted) :
                                  dist_to_final_loc[sorted[k] + 1] >= dist_to_final_loc[i + 1]})
    IN  SubSeq(sorted, 1, before) \o <<i>> \o SubSeq(sorted, before + 1, Len(sorted))

\* The mutant of SortedIndices: the key is the distance, not its negative,
\* so the order is ascending.
RECURSIVE SortedIndices_Ascending(_, _)
SortedIndices_Ascending(dist_to_final_loc, k) ==
    IF k = 0 THEN <<>>
    ELSE LET sorted == SortedIndices_Ascending(dist_to_final_loc, k - 1)
             before == Cardinality({j \in 1..Len(sorted) :
                                      dist_to_final_loc[sorted[j] + 1] <= dist_to_final_loc[k]})
         IN  SubSeq(sorted, 1, before) \o <<k - 1>> \o SubSeq(sorted, before + 1, Len(sorted))

\* Lines 67-69: sorted(range(team_count), key=lambda i: -dist[i]) for the
\* first k indices; sorted() is stable, so equal distances keep the
\* ascending order of the indices.
RECURSIVE SortedIndices(_, _)
SortedIndices(dist_to_final_loc, k) ==
    IF k = 0 THEN <<>>
    ELSE StableInsert(SortedIndices(dist_to_final_loc, k - 1), k - 1, dist_to_final_loc)

\* FinalLocationInitializer.create_initial_solution, lines 60-80.
FinalLocationInitializer_create_initial_solution(dist_to_final_loc, team_count, course_count) ==
    IF team_count # Len(dist_to_final_loc)
    THEN [outcome |-> "ValueError"]
    ELSE LET meal_group_count == team_count \div course_count
             sorted_indices == SortedIndices(dist_to_final_loc, team_count)
         IN  [outcome |-> "returned",
              solution |->
                [course \in 1..course_count |->
                   [meal_group \in 1..meal_group_count |->
                      DinnerGroup(sorted_indices[(course - 1) * meal_group_count + meal_group],
                                  [i \in 1..(course_count - 1) |-> meal_group - 1])]]]

(***************************************************************************)
(* solution.py: equality.                                                  *)
(***************************************************************************)
\* What the specification calls structural equality: the same cooking_team
\* and the same guest_indices in every cell.
StructurallyEqual(a, b) == a = b

\* DinnerGroup.__eq__, lines 21-22: `and` evaluates its right operand only
\* when the cooking teams are equal, and that operand reads
\* self.groups_per_course, which a DinnerGroup does not have.
DinnerGroup_eq(self, other) ==
    IF self.cooking_team = other.cooking_team THEN "AttributeError" ELSE "False"

\* Solution.__eq__, lines 101-102: numpy.array_equal of the two
\* courses x groups object arrays compares them cell by cell with
\* DinnerGroup.__eq__.  When no cell raises every cell is False and so is
\* the result.  When a cell raises, the installed numpy decides: from 1.25
\* on the error propagates, before that the comparison is abandoned with a
\* warning and array_equal returns False.
Solution_eq(self, other, numpy_propagates) ==
    IF Len(self) # Len(other) \/ MealGroupCountOf(self) # MealGroupCountOf(other)
    THEN "False"
    ELSE IF /\ numpy_propagates
            /\ \E cell \in Cells(self) :
                 DinnerGroup_eq(self[cell[1]][cell[2]], other[cell[1]][cell[2]])
                   = "AttributeError"
         THEN "AttributeError"
         ELSE "False"

SolutionWithScore(solution, score) == [solution |-> solution, score |-> score]

(***************************************************************************)
(* optimizer.py: GeneticOptimizer.                                         *)
(***************************************************************************)
\* _rate_solution, lines 75-82, with the DiversitySolutionRater as rater.
rate_solution(solution) ==
    DiversitySolutionRater_rate_solution(get_paths_per_host(solution))

\* The error _rate_solution ends with, "none" when it returns a score.
rate_solution_raises(solution) ==
    DiversitySolutionRater_raises(get_paths_per_host(solution))

\* The mutant of SwapHosts: the second cell is written from the already
\* overwritten first cell (no temp), so one team is lost.
SwapHosts_NoTemp(sol, course1, host1, course2, host2) ==
    [sol EXCEPT ![course1][host1].cooking_team = sol[course2][host2].cooking_team]

\* Lines 110-113: exchange the cooking teams of two cells.
SwapHosts(sol, course1, host1, course2, host2) ==
    LET temp == sol[course1][host1].cooking_team
        step == [sol EXCEPT ![course1][host1].cooking_team = sol[course2][host2].cooking_team]
    IN  [step EXCEPT ![course2][host2].cooking_team = temp]

\* The mutant of SwapGuests: the second list is written from the already
\* overwritten first list (no temp), so one guest index is lost.
SwapGuests_NoTemp(sol, course, guest1, guest2, index) ==
    [sol EXCEPT ![course][guest1].guest_indices[index] =
                   sol[course][guest2].guest_indices[index]]

\* The mutant of SwapGuests: the value kept in temp is appended to the
\* second list, not written at index.
SwapGuests_AppendToSecond(sol, course, guest1, guest2, index) ==
    LET temp == sol[course][guest1].guest_indices[index]
        step == [sol EXCEPT ![course][guest1].guest_indices[index] =
                               sol[course][guest2].guest_indices[index]]
    IN  [step EXCEPT ![course][guest2].guest_indices =
                        Append(sol[course][guest2].guest_indices, temp)]

\* Lines 128-131: exchange one guest index column between two groups of a
\* course.
SwapGuests(sol, course, guest1, guest2, index) ==
    LET temp == sol[course][guest1].guest_indices[index]
        step == [sol EXCEPT ![course][guest1].guest_indices[index] =
                               sol[course][guest2].guest_indices[index]]
    IN  [step EXCEPT ![course][guest2].guest_indices[index] = temp]

\* Lines 118-131: the guest swaps of one mutation, in order.
RECURSIVE ApplyGuestSwaps(_, _)
ApplyGuestSwaps(sol, swaps) ==
    IF Len(swaps) = 0 THEN sol
    ELSE ApplyGuestSwaps(SwapGuests(sol, Head(swaps).course, Head(swaps).guest1,
                                    Head(swaps).guest2, Head(swaps).index),
                         Tail(swaps))

\* The values the random draws of one _mutate_solution call can hold when
\* its retry loop is left.  Host branch (randint(0, 2) > 1): two cells,
\* redrawn until they differ (line 106).  Guest branch: 1..meal_group_count
\* swaps, each a course, a column and two groups, guest1 redrawn until it
\* differs from guest2 (line 125).
HostDraws(sol) ==
    {[mutate_dinner_hosts |-> TRUE, course1 |-> c1[1], host1 |-> c1[2],
      course2 |-> c2[1], host2 |-> c2[2], swaps |-> <<>>] :
        c1 \in Cells(sol), c2 \in Cells(sol)} \
    {[mutate_dinner_hosts |-> TRUE, course1 |-> c[1], host1 |-> c[2],
      course2 |-> c[1], host2 |-> c[2], swaps |-> <<>>] : c \in Cells(sol)}

GuestSwapDraws(sol) ==
    {d \in [course : 1..Len(sol),
             guest1 : 1..MealGroupCountOf(sol),
             guest2 : 1..MealGroupCountOf(sol),
             index : 1..(Len(sol) - 1)] : d.guest1 # d.guest2}

GuestDraws(sol) ==
    UNION {{[mutate_dinner_hosts |-> FALSE, course1 |-> 0, host1 |-> 0,
             course2 |-> 0, host2 |-> 0, swaps |-> swaps] :
              swaps \in [1..mutations_num -> GuestSwapDraws(sol)]} :
           mutations_num \in 1..MealGroupCountOf(sol)}

\* A retry loop of _mutate_solution that no draw can leave: line 106 when
\* the solution has a single cell, line 125 when a course has a single
\* group (randint(0, 0) is always 0).
MutationHangs(sol, mutate_dinner_hosts) ==
    IF mutate_dinner_hosts
    THEN Len(sol) * MealGroupCountOf(sol) = 1
    ELSE MealGroupCountOf(sol) = 1

\* The mutant of mutate_solution: the guest branch also exchanges the
\* cooking teams of the two groups of its first swap.
mutate_solution_GuestsWithHosts(parent_solution, draw) ==
    IF draw.mutate_dinner_hosts
    THEN SwapHosts(parent_solution, draw.course1, draw.host1, draw.course2, draw.host2)
    ELSE SwapHosts(ApplyGuestSwaps(parent_solution, draw.swaps),
                   draw.swaps[1].course, draw.swaps[1].guest1,
                   draw.swaps[1].course, draw.swaps[1].guest2)

\* _mutate_solution, lines 85-132, for one outcome of its draws: the child
\* built on a copy of the parent.
mutate_solution(parent_solution, draw) ==
    IF draw.mutate_dinner_hosts
    THEN SwapHosts(parent_solution, draw.course1, draw.host1, draw.course2, draw.host2)
    ELSE ApplyGuestSwaps(parent_solution, draw.swaps)

\* The mutant of ScanGeneration: the comparison of line 145 is turned
\* round, so that the scan goes on over the entries the child beats.
RECURSIVE ScanGeneration_WorseFirst(_, _, _)
ScanGeneration_WorseFirst(generation_list, child_score, i) ==
    IF /\ i < Len(generation_list)
       /\ IF i = 0
          THEN child_score.num \div child_score.den <= sys_maxsize
          ELSE ScoreGeq(child_score, generation_list[i].score)
    THEN ScanGeneration_WorseFirst(generation_list, child_score, i + 1)
    ELSE i

\* The mutant of ScanGeneration: the scan is left after its first round
\* whatever the scores, so that every child is inserted in front.
ScanGeneration_FirstRoundOnly(generation_list, child_score, i) ==
    IF i < Len(generation_list) THEN i + 1 ELSE i

\* Lines 143-147: i when the scan loop is left.  current_score is
\* sys.maxsize before the first round and generation_list[i - 1].score (the
\* entry at list position i here) after round i.
RECURSIVE ScanGeneration(_, _, _)
ScanGeneration(generation_list, child_score, i) ==
    IF /\ i < Len(generation_list)
       /\ IF i = 0
          THEN child_score.num \div child_score.den <= sys_maxsize
          ELSE ScoreGeq(generation_list[i].score, child_score)
    THEN ScanGeneration(generation_list, child_score, i + 1)
    ELSE i

\* The mutant of ListInsert: the element is put in one place further back.
ListInsert_OneBehind(list, k, x) ==
    SubSeq(list, 1, k + 1) \o <<x>> \o SubSeq(list, k + 2, Len(list))

\* list.insert(k, x) for 0 <= k <= len(list), and list.pop().
ListInsert(list, k, x) == SubSeq(list, 1, k) \o <<x>> \o SubSeq(list, k + 1, Len(list))
ListPop(list) == SubSeq(list, 1, Len(list) - 1)

\* _insert_into_generation_list, lines 135-159: the list afterwards, whether
\* the child was inserted, and whether the comparison of line 150 raised.
insert_into_generation_list(generation_list, child, numpy_propagates) ==
    LET i == ScanGeneration(generation_list, child.score, 0)
        eq == IF i > 0
              THEN Solution_eq(child.solution, generation_list[i].solution, numpy_propagates)
              ELSE "False"
    IN  IF eq = "AttributeError"
        THEN [raised |-> TRUE, inserted |-> FALSE, list |-> generation_list]
        ELSE IF eq = "True"
        THEN [raised |-> FALSE, inserted |-> FALSE, list |-> generation_list]
        ELSE IF i < Len(generation_list)
        THEN [raised |-> FALSE, inserted |-> TRUE,
              list |-> ListPop(ListInsert(generation_list, i - 1, child))]
        ELSE [raised |-> FALSE, inserted |-> FALSE, list |-> generation_list]

\* The mutant of LoopContinues: one iteration too many.
LoopContinues_OneMore(next_iteration) == next_iteration <= MAX_ITERATIONS

\* Line 59: for iteration in range(MAX_ITERATIONS).
LoopContinues(next_iteration) == next_iteration < MAX_ITERATIONS

(***************************************************************************)
(* State.                                                                  *)
(***************************************************************************)
VARIABLES
    \* GeneticOptimizer.optimize
    numpy_propagates,     \* the installed numpy raises errors of == (>= 1.25)
    arg_team_count,       \* optimize's team_count
    arg_course_count,     \* optimize's course_count
    pc,                   \* where optimize is
    initial_rating,       \* the score of the initializer's solution
    current_generation,   \* optimize's current_generation (prev_gen in a step)
    new_gen,              \* _create_new_generation's new_gen
    solution_idx,         \* position of `solution` in prev_gen (from 1)
    mutation_j,           \* j of line 170
    iteration,            \* the loop variable of line 59, -1 before the loop
    no_changes_since,
    last_best_solution,
    returned_solution,    \* what optimize returned
    \* history of the run
    unchanged_run,        \* consecutive generations whose best solution is
                          \* structurally equal to the previous one
    stopped_early,        \* the break of line 65 was taken
    \* one decoding and rating of a solution
    stage,
    arg_solution,
    arg_distances,
    the_rater,
    the_paths,
    the_score,
    \* one call of another operation of the library
    call_args,            \* the operation and its arguments
    call_result           \* what the call returned or raised

optVars == <<numpy_propagates, arg_team_count, arg_course_count, pc, initial_rating,
             current_generation, new_gen, solution_idx, mutation_j, iteration,
             no_changes_since, last_best_solution, returned_solution,
             unchanged_run, stopped_early>>
rateVars == <<stage, arg_solution, arg_distances, the_rater, the_paths, the_score>>
callVars == <<call_args, call_result>>
vars == <<optVars, rateVars, callVars>>

NoScore == [num |-> 0, den |-> 0]
NoRater == [kind |-> "none"]

OptimizerUnused ==
    /\ numpy_propagates = FALSE /\ arg_team_count = 0 /\ arg_course_count = 0
    /\ pc = "unused" /\ initial_rating = NoScore
    /\ current_generation = <<>> /\ new_gen = <<>>
    /\ solution_idx = 0 /\ mutation_j = 0 /\ iteration = 0
    /\ no_changes_since = 0 /\ last_best_solution = <<>> /\ returned_solution = <<>>
    /\ unchanged_run = 0 /\ stopped_early = FALSE

RatingUnused ==
    /\ stage = "unused" /\ arg_solution = <<>> /\ arg_distances = <<>>
    /\ the_rater = NoRater /\ the_paths = <<>> /\ the_score = NoScore

NoCall == [op |-> "none"]
NoResult == [outcome |-> "none"]

CallUnused == call_args = NoCall /\ call_result = NoResult

(***************************************************************************)
(* GeneticOptimizer.optimize with a RandomInitializer and a                *)
(* DiversitySolutionRater.                                                 *)
(***************************************************************************)
\* Lines 54-58: the initial generation of _create_initial_generation
\* (lines 181-195), the same solution CANDIDATE_NUMBER_PER_GENERATION times.
Init ==
    /\ RatingUnused
    /\ CallUnused
    /\ numpy_propagates \in BOOLEAN
    /\ \E sh \in Shapes : \E random_indices \in Permutations0(sh[1]) :
         LET initial_guess ==
                 RandomInitializer_create_initial_solution(sh[1], sh[2], random_indices)
             rating == rate_solution(initial_guess)
         IN  /\ arg_team_count = sh[1]
             /\ arg_course_count = sh[2]
             /\ initial_rating = rating
             /\ current_generation =
                    [k \in 1..CANDIDATE_NUMBER_PER_GENERATION |->
                        SolutionWithScore(initial_guess, rating)]
             /\ new_gen =
                    [k \in 1..CANDIDATE_NUMBER_PER_GENERATION |->
                        SolutionWithScore(initial_guess, rating)]
             /\ last_best_solution = initial_guess
             /\ returned_solution = initial_guess
    /\ pc = "loop"
    /\ solution_idx = 1
    /\ mutation_j = 0
    /\ iteration = -1
    /\ no_changes_since = 0
    /\ unchanged_run = 0
    /\ stopped_early = FALSE

\* Line 59 and, when the loop goes on, line 60 up to line 167: the next
\* iteration starts and _create_new_generation copies prev_gen.
StartGeneration ==
    /\ pc = "loop"
    /\ IF LoopContinues(iteration + 1)
       THEN /\ iteration' = iteration + 1
            /\ new_gen' = current_generation
            /\ solution_idx' = 1
            /\ mutation_j' = 0
            /\ pc' = "generation"
       ELSE /\ pc' = "loop_done"
            /\ UNCHANGED <<iteration, new_gen, solution_idx, mutation_j>>
    /\ UNCHANGED <<numpy_propagates, arg_team_count, arg_course_count, initial_rating,
                   current_generation, no_changes_since, last_best_solution,
                   returned_solution, unchanged_run, stopped_early, rateVars, callVars>>

\* Lines 170-177: one round of the inner loop: mutate prev_gen's member,
\* rate the child, try to insert it into new_gen.  pc becomes "hang" when
\* the retry loop of the drawn branch can never be left, "raised" when the
\* rater or the comparison inside the insertion raises.
Mutation ==
    /\ pc = "generation"
    /\ solution_idx <= Len(current_generation)
    /\ \E mutate_dinner_hosts \in BOOLEAN :
         LET parent == current_generation[solution_idx].solution
         IN  IF MutationHangs(parent, mutate_dinner_hosts)
             THEN /\ pc' = "hang"
                  /\ UNCHANGED <<new_gen, solution_idx, mutation_j>>
             ELSE \E mutated_solution \in
                        {mutate_solution(parent, draw) :
                            draw \in IF mutate_dinner_hosts THEN HostDraws(parent)
                                                            ELSE GuestDraws(parent)} :
                    IF rate_solution_raises(mutated_solution) # "none"
                    THEN /\ pc' = "raised"
                         /\ UNCHANGED <<new_gen, solution_idx, mutation_j>>
                    ELSE
                    \E score \in {rate_solution(mutated_solution)} :
                    \E outcome \in {insert_into_generation_list(
                                        new_gen,
                                        SolutionWithScore(mutated_solution, score),
                                        numpy_propagates)} :
                        IF outcome.raised
                        THEN /\ pc' = "raised"
                             /\ UNCHANGED <<new_gen, solution_idx, mutation_j>>
                        ELSE /\ new_gen' = outcome.list
                             /\ pc' = "generation"
                             /\ IF mutation_j + 1 < MUTATIONS_PER_SOLUTION
                                THEN /\ mutation_j' = mutation_j + 1
                                     /\ solution_idx' = solution_idx
                                ELSE /\ mutation_j' = 0
                                     /\ solution_idx' = solution_idx + 1
    /\ UNCHANGED <<numpy_propagates, arg_team_count, arg_course_count, initial_rating,
                   current_generation, iteration, no_changes_since, last_best_solution,
                   returned_solution, unchanged_run, stopped_early, rateVars, callVars>>

\* Line 179 and lines 60-70: _create_new_generation returns new_gen, the
\* best solution is compared with the last one, the stall counter is
\* updated or the loop is left.
FinishGeneration ==
    /\ pc = "generation"
    /\ solution_idx > Len(current_generation)
    /\ current_generation' = new_gen
    /\ LET eq == Solution_eq(last_best_solution, new_gen[1].solution, numpy_propagates)
       IN  IF eq = "AttributeError"
           THEN /\ pc' = "raised"
                /\ UNCHANGED <<no_changes_since, last_best_solution, stopped_early,
                               unchanged_run>>
           ELSE /\ unchanged_run' =
                       IF StructurallyEqual(last_best_solution, new_gen[1].solution)
                       THEN unchanged_run + 1 ELSE 0
                /\ IF eq = "True" /\ no_changes_since >= ROUNDS_WITHOUT_CHANGE_TO_BREAK
                   THEN /\ pc' = "loop_done"
                        /\ stopped_early' = TRUE
                        /\ UNCHANGED <<no_changes_since, last_best_solution>>
                   ELSE /\ pc' = "loop"
                        /\ no_changes_since' =
                               IF eq = "True" THEN no_changes_since + 1 ELSE 0
                        /\ last_best_solution' = new_gen[1].solution
                        /\ UNCHANGED stopped_early
    /\ UNCHANGED <<numpy_propagates, arg_team_count, arg_course_count, initial_rating,
                   new_gen, solution_idx, mutation_j, iteration, returned_solution,
                   rateVars, callVars>>

\* Lines 71-73: the best solution of the last generation is returned.
Return ==
    /\ pc = "loop_done"
    /\ pc' = "returned"
    /\ returned_solution' = current_generation[1].solution
    /\ UNCHANGED <<numpy_propagates, arg_team_count, arg_course_count, initial_rating,
                   current_generation, new_gen, solution_idx, mutation_j, iteration,
                   no_changes_since, last_best_solution, unchanged_run, stopped_early,
                   rateVars, callVars>>

Next == StartGeneration \/ Mutation \/ FinishGeneration \/ Return

Spec == Init /\ [][Next]_vars

(***************************************************************************)
(* One decoding and rating of a solution: the solution (and the distance   *)
(* data of the rater) are drawn, then the rater is constructed, the        *)
(* solution decoded and the paths rated.                                   *)
(***************************************************************************)
AllValidSolutions == UNION {ValidSolutions(sh[1], sh[2]) : sh \in Shapes}

\* get_paths_per_host of the drawn solution.
GetPaths ==
    /\ stage = "constructed"
    /\ the_paths' = get_paths_per_host(arg_solution)
    /\ stage' = "decoded"
    /\ UNCHANGED <<arg_solution, arg_distances, the_rater, the_score, optVars, callVars>>

\* DiversitySolutionRater.rate_solution of the decoded paths.
RateDiversity ==
    /\ stage = "decoded"
    /\ the_rater.kind = "diversity"
    /\ IF DiversitySolutionRater_raises(the_paths) # "none"
       THEN /\ stage' = DiversitySolutionRater_raises(the_paths)
            /\ UNCHANGED the_score
       ELSE /\ the_score' = DiversitySolutionRater_rate_solution(the_paths)
            /\ stage' = "rated"
    /\ UNCHANGED <<arg_solution, arg_distances, the_rater, the_paths, optVars, callVars>>

InitDiversity ==
    /\ OptimizerUnused
    /\ CallUnused
    /\ stage = "constructed"
    /\ arg_solution \in AllValidSolutions \cup {TestSolutionSimple, TestSolutionComplex}
    /\ arg_distances = <<>>
    /\ the_rater = [kind |-> "diversity"]
    /\ the_paths = <<>>
    /\ the_score = NoScore

NextDiversity == GetPaths \/ RateDiversity

SpecDiversity == InitDiversity /\ [][NextDiversity]_vars

\* FinalLocationDistanceSolutionRater: the distance vector has one entry
\* per team; teams_per_course is len(dinner_teams) // courses as in
\* dinnerPlanner.py, lines 29 and 71.
InitFinalLocation ==
    /\ OptimizerUnused
    /\ CallUnused
    /\ stage = "input"
    /\ arg_solution \in AllValidSolutions
    /\ arg_distances \in [1..TeamCountOf(arg_solution) -> 0..MaxDist]
    /\ the_rater = NoRater
    /\ the_paths = <<>>
    /\ the_score = NoScore

ConstructFinalLocationRater ==
    /\ stage = "input"
    /\ the_rater' = FinalLocationDistanceSolutionRater_init(
                        arg_distances, TeamCountOf(arg_solution) \div Len(arg_solution))
    /\ stage' = "constructed"
    /\ UNCHANGED <<arg_solution, arg_distances, the_paths, the_score, optVars, callVars>>

\* rate_solution of the decoded paths; the division of line 131 raises
\* when max_squared_distance equals min_squared_distance.
RateFinalLocation ==
    /\ stage = "decoded"
    /\ the_score' = FinalLocationDistanceSolutionRater_rate_solution(the_rater, the_paths)
    /\ stage' = IF the_score'.den = 0 THEN "ZeroDivisionError" ELSE "rated"
    /\ UNCHANGED <<arg_solution, arg_distances, the_rater, the_paths, optVars, callVars>>

NextFinalLocation == ConstructFinalLocationRater \/ GetPaths \/ RateFinalLocation

SpecFinalLocation == InitFinalLocation /\ [][NextFinalLocation]_vars

\* InterDistanceSolutionRater: a square symmetric matrix with a zero
\* diagonal, one row per team, built from its upper triangle.
SymmetricMatrices(n) ==
    LET upper == {pair \in (1..n) \X (1..n) : pair[1] < pair[2]}
    IN  { [row \in 1..n |->
             [col \in 1..n |->
                IF row = col THEN 0
                ELSE IF row < col THEN u[<<row, col>>] ELSE u[<<col, row>>]]] :
          u \in [upper -> 0..MaxLegDist] }

InitInterDistance ==
    /\ OptimizerUnused
    /\ CallUnused
    /\ stage = "input"
    /\ arg_solution \in AllValidSolutions
    /\ arg_distances \in SymmetricMatrices(TeamCountOf(arg_solution))
    /\ the_rater = NoRater
    /\ the_paths = <<>>
    /\ the_score = NoScore

ConstructInterDistanceRater ==
    /\ stage = "input"
    /\ the_rater' = InterDistanceSolutionRater_init(arg_distances, Len(arg_solution))
    /\ stage' = "constructed"
    /\ UNCHANGED <<arg_solution, arg_distances, the_paths, the_score, optVars, callVars>>

\* rate_solution, with the check of line 222: the matrix has as many rows
\* as there are paths.  The division of line 231 raises when
\* max_square_distance equals min_square_distance.
RateInterDistance ==
    /\ stage = "decoded"
    /\ IF Len(the_rater.distance_matrix) # Cardinality(DOMAIN the_paths)
       THEN /\ stage' = "ValueError"
            /\ UNCHANGED the_score
       ELSE /\ the_score' = InterDistanceSolutionRater_rate_solution(the_rater, the_paths)
            /\ stage' = IF the_score'.den = 0 THEN "ZeroDivisionError" ELSE "rated"
    /\ UNCHANGED <<arg_solution, arg_distances, the_rater, the_paths, optVars, callVars>>

NextInterDistance == ConstructInterDistanceRater \/ GetPaths \/ RateInterDistance

SpecInterDistance == InitInterDistance /\ [][NextInterDistance]_vars

(***************************************************************************)
(* CombinedSolutionRater over raters with fixed values.                    *)
(***************************************************************************)
\* The values the fixed-value raters return: 0, 0.5 and 1.
DummyValues == {[num |-> 0, den |-> 1], [num |-> 1, den |-> 2], [num |-> 1, den |-> 1]}

\* tests.py, line 101: weights 1, 4, 15 with the values 1, 0.5, 0.
TestRatersCombined ==
    << <<1, DummySolutionRater([num |-> 1, den |-> 1])>>,
       <<4, DummySolutionRater([num |-> 1, den |-> 2])>>,
       <<15, DummySolutionRater([num |-> 0, den |-> 1])>> >>

\* tests.py, line 104.
TestPathsCombined == (0 :> <<0, 1>>) @@ (1 :> <<0, 1>>) @@ (2 :> <<2, 3>>) @@ (3 :> <<2, 3>>)

\* Every list of up to MaxRaters (weight, rater) pairs, weights of either
\* sign.
RaterLists ==
    UNION { [1..n -> ((0 - 1)..MaxWeight) \X {DummySolutionRater(v) : v \in DummyValues}] :
            n \in 0..MaxRaters }

InitCombined ==
    /\ OptimizerUnused
    /\ RatingUnused
    /\ \E solution_raters \in RaterLists \cup {TestRatersCombined} :
         call_args = [op |-> "CombinedSolutionRater",
                      solution_raters |-> solution_raters,
                      paths_per_host |-> TestPathsCombined]
    /\ call_result = NoResult

\* CombinedSolutionRater(solution_raters).
ConstructCombinedRater ==
    /\ call_args.op = "CombinedSolutionRater"
    /\ call_result.outcome = "none"
    /\ call_result' = CombinedSolutionRater_init(call_args.solution_raters)
    /\ UNCHANGED <<call_args, optVars, rateVars>>

\* rater.rate_solution(paths_per_host); the division of line 55 raises when
\* total_weight is 0.
RateCombined ==
    /\ call_args.op = "CombinedSolutionRater"
    /\ call_result.outcome = "constructed"
    /\ LET score == CombinedSolutionRater_rate_solution(call_result, call_args.paths_per_host)
       IN  call_result' =
             IF score.den = 0
             THEN [outcome |-> "ZeroDivisionError"]
             ELSE [outcome |-> "rated", score |-> score]
    /\ UNCHANGED <<call_args, optVars, rateVars>>

NextCombined == ConstructCombinedRater \/ RateCombined

SpecCombined == InitCombined /\ [][NextCombined]_vars

(***************************************************************************)
(* The initializers, for every team_count and course_count, divisible or   *)
(* not.                                                                    *)
(***************************************************************************)
\* tests.py, line 183: the distances of 18 teams to the final location.
TestDistancesToFinalLocation ==
    <<63, 95, 96, 8, 99, 78, 63, 105, 52, 5, 88, 102, 3, 33, 57, 1, 200, 4>>

RandomInitializerCalls ==
    UNION { [op : {"RandomInitializer"}, team_count : {team_count},
             course_count : 1..MaxTeams, random_indices : Permutations0(team_count)] :
            team_count \in 1..MaxTeams }

FinalLocationInitializerCalls ==
    UNION { [op : {"FinalLocationInitializer"}, team_count : 1..MaxTeams,
             course_count : 1..MaxTeams, dist_to_final_loc : [1..n -> 0..MaxDist]] :
            n \in 1..MaxTeams }

\* tests.py, lines 186 and 189: 5 and 18 teams, 3 courses.
TestInitializerCalls ==
    [op : {"FinalLocationInitializer"}, team_count : {5, 18}, course_count : {3},
     dist_to_final_loc : {TestDistancesToFinalLocation}]

InitInitializer ==
    /\ OptimizerUnused
    /\ RatingUnused
    /\ call_args \in RandomInitializerCalls \cup FinalLocationInitializerCalls
                       \cup TestInitializerCalls
    /\ call_result = NoResult

\* RandomInitializer().create_initial_solution(team_count, course_count),
\* the shuffle having left random_indices; the Solution constructor of
\* line 44 raises TypeError for a list it rejects.
CreateRandomInitialSolution ==
    /\ call_args.op = "RandomInitializer"
    /\ call_result.outcome = "none"
    /\ LET groups_per_course ==
               RandomInitializer_create_initial_solution(
                   call_args.team_count, call_args.course_count, call_args.random_indices)
       IN  call_result' =
             IF Solution_init_ok(groups_per_course)
             THEN [outcome |-> "returned", solution |-> groups_per_course]
             ELSE [outcome |-> "TypeError"]
    /\ UNCHANGED <<call_args, optVars, rateVars>>

\* FinalLocationInitializer(dist).create_initial_solution(team_count,
\* course_count).
CreateFinalLocationInitialSolution ==
    /\ call_args.op = "FinalLocationInitializer"
    /\ call_result.outcome = "none"
    /\ LET created == FinalLocationInitializer_create_initial_solution(
                          call_args.dist_to_final_loc, call_args.team_count,
                          call_args.course_count)
       IN  call_result' =
             IF created.outcome = "returned" /\ ~Solution_init_ok(created.solution)
             THEN [outcome |-> "TypeError"]
             ELSE created
    /\ UNCHANGED <<call_args, optVars, rateVars>>

NextInitializer == CreateRandomInitialSolution \/ CreateFinalLocationInitialSolution

SpecInitializer == InitInitializer /\ [][NextInitializer]_vars

(***************************************************************************)
(* Properties of Solution.get_paths_per_host and of the                    *)
(* DiversitySolutionRater, checked under SpecDiversity.                    *)
(***************************************************************************)
\* The course (from 1) in which team cooks.
HostingCourse(sol, team) ==
    CHOOSE c \in 1..Len(sol) : \E g \in 1..Len(sol[c]) : sol[c][g].cooking_team = team

\* C1: for every valid Solution the decoded map has exactly team_count
\* keys (the team ids 0..team_count-1), every path has one entry per
\* course, and a team's own id appears in its own path exactly once, at
\* the course it hosts.
PathsWellFormed ==
    (stage \in {"decoded", "rated"}
       /\ ValidSolution(arg_solution, TeamCountOf(arg_solution)))
    => /\ DOMAIN the_paths = 0..(TeamCountOf(arg_solution) - 1)
       /\ Cardinality(DOMAIN the_paths) = TeamCountOf(arg_solution)
       /\ \A team \in DOMAIN the_paths :
            /\ DOMAIN the_paths[team] = 1..Len(arg_solution)
            /\ {i \in 1..Len(arg_solution) : the_paths[team][i] = team}
                 = {HostingCourse(arg_solution, team)}

\* A decoded three-course solution whose guest indices send a host of the
\* last course to groups at other positions than its own.
PathsWellFormedWitness ==
    /\ stage = "decoded"
    /\ arg_solution = TestSolutionComplex
    /\ the_paths[2] = <<1, 6, 2>>

\* No two distinct teams have more than one path element in common.
NoTwoTeamsShareMoreThanOne(paths_per_host) ==
    \A team1, team2 \in DOMAIN paths_per_host :
        team1 # team2 =>
            Cardinality(Range(paths_per_host[team1]) \cap Range(paths_per_host[team2])) <= 1

\* Every team's path is made of the same teams as the path of every team
\* it meets: the teams fall into blocks that stay together in every course.
DegeneratePaths(paths_per_host) ==
    \A team \in DOMAIN paths_per_host :
        \A other \in Range(paths_per_host[team]) :
            /\ other \in DOMAIN paths_per_host
            /\ Range(paths_per_host[other]) = Range(paths_per_host[team])

EveryTeamHostsOnce(sol, team_count, course_count) ==
    /\ Len(sol) = course_count
    /\ \A c \in 1..Len(sol) : Len(sol[c]) = team_count \div course_count
    /\ \A team \in 0..(team_count - 1) :
         Cardinality({cell \in Cells(sol) : sol[cell[1]][cell[2]].cooking_team = team}) = 1

\* C2: every solution of every generation of optimize, and the returned
\* solution, has course_count courses of team_count / course_count groups
\* in which every team id occurs exactly once as a cooking_team.
GenerationsKeepEveryTeamOnce ==
    /\ \A k \in DOMAIN current_generation :
         EveryTeamHostsOnce(current_generation[k].solution, arg_team_count, arg_course_count)
    /\ \A k \in DOMAIN new_gen :
         EveryTeamHostsOnce(new_gen[k].solution, arg_team_count, arg_course_count)
    /\ EveryTeamHostsOnce(last_best_solution, arg_team_count, arg_course_count)
    /\ EveryTeamHostsOnce(returned_solution, arg_team_count, arg_course_count)

\* optimize returned a solution that a mutation made and a generation step
\* put in front of the initializer's solution.
GenerationsKeepEveryTeamOnceWitness ==
    /\ pc = "returned"
    /\ returned_solution # current_generation[CANDIDATE_NUMBER_PER_GENERATION].solution
    /\ arg_team_count > arg_course_count

\* C3: the score of the best population member never decreases from one
\* generation to the next (nor while a generation is being built), so the
\* best member, which is what optimize returns, scores at least as high as
\* the initializer's solution.
BestScoreNeverDecreases ==
    /\ [](/\ ScoreGeq(current_generation[1].score, initial_rating)
          /\ ScoreGeq(new_gen[1].score, current_generation[1].score)
          /\ (pc = "returned"
                => /\ returned_solution = current_generation[1].solution
                   /\ ScoreGeq(rate_solution(returned_solution), initial_rating)))
    /\ [][/\ ScoreGeq(current_generation'[1].score, current_generation[1].score)
          /\ ScoreGeq(new_gen'[1].score, new_gen[1].score)]_vars

\* A generation step raised the best score above the initializer's score.
BestScoreNeverDecreasesWitness ==
    /\ pc = "loop"
    /\ iteration >= 0
    /\ ScoreLess(initial_rating, current_generation[1].score)

\* C4: optimize(3, 3) never gets stuck and never raises, and the solution
\* it returns has the diversity score 1.0.
TrivialOptimizationPerfect ==
    (arg_team_count = 3 /\ arg_course_count = 3)
    => /\ pc \notin {"hang", "raised"}
       /\ pc = "returned" => ScoreIs(rate_solution(returned_solution), 1)

\* C5: every operation of a generation step completes: none raises and no
\* retry loop of _mutate_solution runs forever, whatever meal_group_count.
GenerationStepCompletes ==
    pc \notin {"hang", "raised"}

\* C6: the stall counter counts the consecutive generations whose best
\* solution is structurally unchanged, and no generation step is executed
\* once ROUNDS_WITHOUT_CHANGE_TO_BREAK of them have been observed.
EarlyStopAfterUnchangedRounds ==
    /\ pc \in {"loop", "generation", "loop_done", "returned"}
         => no_changes_since = unchanged_run
    /\ pc = "generation" => unchanged_run < ROUNDS_WITHOUT_CHANGE_TO_BREAK

\* C7: optimize never executes more than MAX_ITERATIONS generation steps,
\* and when it leaves the loop without the early stop it has executed
\* exactly MAX_ITERATIONS of them (iteration counts the steps from 0).
AtMostMaxIterations ==
    /\ iteration + 1 <= MAX_ITERATIONS
    /\ (pc \in {"loop_done", "returned"} /\ ~stopped_early)
         => iteration + 1 = MAX_ITERATIONS

\* optimize returned after MAX_ITERATIONS generation steps without an
\* early stop.
AtMostMaxIterationsWitness ==
    /\ pc = "returned"
    /\ ~stopped_early
    /\ iteration + 1 = MAX_ITERATIONS

(***************************************************************************)
(* Properties of the distance raters, checked under SpecInterDistance and  *)
(* SpecFinalLocation.                                                      *)
(***************************************************************************)
\* C9: for every square symmetric non-negative distance matrix with a zero
\* diagonal and the path map of every valid solution with as many teams as
\* the matrix has rows, InterDistanceSolutionRater.rate_solution returns a
\* score in [0,1]: the summed squared leg distances are never below
\* min_square_distance and never above max_square_distance.
InterDistanceScoreInUnitInterval ==
    (stage \in {"rated", "ZeroDivisionError", "ValueError"}
       /\ "min_square_distance" \in DOMAIN the_rater)
    => /\ stage = "rated"
       /\ ScoreInUnitInterval(the_score)
       /\ the_rater.min_square_distance <= InterSquaredDistances(the_rater, the_paths)
       /\ InterSquaredDistances(the_rater, the_paths) <= the_rater.max_square_distance

\* The teams cooking the last course.
LastCourseHosts(sol) == {sol[Len(sol)][g].cooking_team : g \in 1..Len(sol[Len(sol)])}

\* No team outside hosts is closer to (farther from) the final location
\* than a team of hosts.
ClosestTeams(dist_to_final_loc, hosts) ==
    \A h \in hosts : \A t \in 0..(Len(dist_to_final_loc) - 1) :
        t \notin hosts => dist_to_final_loc[h + 1] <= dist_to_final_loc[t + 1]
FarthestTeams(dist_to_final_loc, hosts) ==
    \A h \in hosts : \A t \in 0..(Len(dist_to_final_loc) - 1) :
        t \notin hosts => dist_to_final_loc[h + 1] >= dist_to_final_loc[t + 1]

\* C10: for every distance vector, course count and teams_per_course,
\* FinalLocationDistanceSolutionRater.rate_solution returns a score in
\* [0,1] for the path map of every valid solution: the summed squared
\* distance of the last hosts lies between min_squared_distance and
\* max_squared_distance, the score is 1.0 when the last-course hosts are the
\* closest teams and 0.0 when they are the farthest.
FinalLocationScoreInUnitInterval ==
    (stage \in {"rated", "ZeroDivisionError"}
       /\ "min_squared_distance" \in DOMAIN the_rater)
    => /\ stage = "rated"
       /\ ScoreInUnitInterval(the_score)
       /\ the_rater.min_squared_distance <= FinalSquaredDistanceOf(the_rater, the_paths)
       /\ FinalSquaredDistanceOf(the_rater, the_paths) <= the_rater.max_squared_distance
       /\ ClosestTeams(arg_distances, LastCourseHosts(arg_solution))
            => ScoreIs(the_score, 1)
       /\ FarthestTeams(arg_distances, LastCourseHosts(arg_solution))
            => ScoreIs(the_score, 0)

(***************************************************************************)
(* Properties of the CombinedSolutionRater, checked under SpecCombined.    *)
(***************************************************************************)
\* The product of the denominators of the raters' values, and the sum of
\* weight * value over that common denominator.
RECURSIVE CommonDenominator(_, _)
CommonDenominator(solution_raters, k) ==
    IF k = 0 THEN 1
    ELSE solution_raters[k][2].value.den * CommonDenominator(solution_raters, k - 1)

WeightedValues(solution_raters) ==
    SumSeq([i \in 1..Len(solution_raters) |->
              solution_raters[i][1] * solution_raters[i][2].value.num
                * (CommonDenominator(solution_raters, Len(solution_raters))
                     \div solution_raters[i][2].value.den)])

AllWeightsPositive(solution_raters) ==
    \A i \in 1..Len(solution_raters) : solution_raters[i][1] > 0

\* C11: for a non-empty list of (weight, rater) pairs with positive weights
\* the rater is constructed and rate_solution returns
\* sum(weight_i * score_i) / sum(weight_i); that is 0.15 for the weights
\* 1, 4, 15 with the scores 1, 0.5, 0, and it is in [0,1] when every
\* rater's score is.
CombinedIsWeightedAverage ==
    (call_args.op = "CombinedSolutionRater"
       /\ Len(call_args.solution_raters) > 0
       /\ AllWeightsPositive(call_args.solution_raters))
    => /\ call_result.outcome \in {"none", "constructed", "rated"}
       /\ call_result.outcome = "rated"
            => /\ call_result.score.den > 0
               /\ call_result.score.num
                    * CommonDenominator(call_args.solution_raters,
                                        Len(call_args.solution_raters))
                    * SumSeq([i \in 1..Len(call_args.solution_raters) |->
                                call_args.solution_raters[i][1]])
                  = call_result.score.den * WeightedValues(call_args.solution_raters)
               /\ ScoreInUnitInterval(call_result.score)
               /\ call_args.solution_raters = TestRatersCombined
                    => 20 * call_result.score.num = 3 * call_result.score.den

\* The rater of the weights 1, 4, 15 and the values 1, 0.5, 0 has rated a
\* path map.
CombinedIsWeightedAverageWitness ==
    /\ call_args.op = "CombinedSolutionRater"
    /\ call_args.solution_raters = TestRatersCombined
    /\ call_result.outcome = "rated"
    /\ 20 * call_result.score.num = 3 * call_result.score.den

\* C12: constructing a CombinedSolutionRater raises ValueError, and yields
\* no rater, when the list is empty or a weight at any position is zero or
\* negative.
CombinedRejectsNonPositiveWeights ==
    (call_args.op = "CombinedSolutionRater"
       /\ call_result.outcome # "none"
       /\ (Len(call_args.solution_raters) = 0
             \/ ~AllWeightsPositive(call_args.solution_raters)))
    => call_result.outcome = "ValueError"

(***************************************************************************)
(* Properties of the initializers, checked under SpecInitializer.          *)
(***************************************************************************)
\* The cooking teams of a solution read course by course, position by
\* position.
CookingTeamsInOrder(sol) ==
    [k \in 1..(Len(sol) * Len(sol[1])) |->
        sol[1 + ((k - 1) \div Len(sol[1]))][1 + ((k - 1) % Len(sol[1]))].cooking_team]

\* Every group at position g (from 0) has guest_indices [g] * (courses - 1).
PlaceholderGuestIndices(sol) ==
    \A c \in 1..Len(sol) : \A g \in 1..Len(sol[c]) :
        sol[c][g].guest_indices = [i \in 1..(Len(sol) - 1) |-> g - 1]

\* C13: create_initial_solution of both initializers raises an
\* invalid-argument error, and returns no Solution, whenever team_count is
\* not evenly divisible by course_count.
InitializersRejectIndivisible ==
    (call_args.op \in {"RandomInitializer", "FinalLocationInitializer"}
       /\ call_result.outcome # "none"
       /\ call_args.team_count % call_args.course_count # 0)
    => call_result.outcome = "ValueError"

\* C14: for team_count a positive multiple of course_count the random
\* initializer returns course_count courses of team_count / course_count
\* groups whose cooking teams, read course by course, are a permutation of
\* 0..team_count-1 (the shuffled ids in their order), the group at position
\* g having guest_indices [g] * (course_count - 1).
RandomInitializerShape ==
    (call_args.op = "RandomInitializer"
       /\ call_result.outcome # "none"
       /\ call_args.team_count % call_args.course_count = 0)
    => /\ call_result.outcome = "returned"
       /\ Len(call_result.solution) = call_args.course_count
       /\ \A c \in 1..call_args.course_count :
            Len(call_result.solution[c]) = call_args.team_count \div call_args.course_count
       /\ CookingTeamsInOrder(call_result.solution) = call_args.random_indices
       /\ \A team \in 0..(call_args.team_count - 1) :
            Cardinality({k \in 1..call_args.team_count :
                           CookingTeamsInOrder(call_result.solution)[k] = team}) = 1
       /\ PlaceholderGuestIndices(call_result.solution)

\* The random initializer returned a solution of two courses of two groups.
RandomInitializerShapeWitness ==
    /\ call_args.op = "RandomInitializer"
    /\ call_args.team_count = 4
    /\ call_args.course_count = 2
    /\ call_result.outcome = "returned"
    /\ call_result.solution[2][2].guest_indices = <<1>>

IndexLists(n, meal_group_count) ==
    UNION {[1..len -> 0..(meal_group_count - 1)] : len \in 0..n}

\* The (course_count, meal_group_count) of the lists drawn.
RawShapes ==
    {sh \in (1..MaxTeams) \X (1..MaxTeams) : sh[1] * sh[2] <= MaxTeams}

\* The groups_per_course arguments drawn: the empty list, and for every
\* shape given the lists whose cell k is cooked by team k - 1 and whose guest
\* index lists have any length from 0 to the number of courses.
RawGroupsPerCourse(shapes) ==
    {<<>>} \cup
    UNION { { [c \in 1..sh[1] |->
                 [g \in 1..sh[2] |->
                    DinnerGroup((c - 1) * sh[2] + g - 1, gi[c][g])]] :
              gi \in [1..sh[1] -> [1..sh[2] -> IndexLists(sh[1], sh[2])]] } :
            sh \in shapes }

InitSolution ==
    /\ OptimizerUnused
    /\ CallUnused
    /\ stage = "input"
    /\ arg_solution \in RawGroupsPerCourse(RawShapes)
                       \cup {TestSolutionSimple, TestSolutionComplex}
    /\ arg_distances = <<>>
    /\ the_rater = NoRater
    /\ the_paths = <<>>
    /\ the_score = NoScore

\* Solution.__init__, lines 52-60.
ConstructSolution ==
    /\ stage = "input"
    /\ stage' = IF Solution_init_ok(arg_solution) THEN "constructed" ELSE "TypeError"
    /\ UNCHANGED <<arg_solution, arg_distances, the_rater, the_paths, the_score,
                   optVars, callVars>>

NextSolution == ConstructSolution \/ GetPaths

SpecSolution == InitSolution /\ [][NextSolution]_vars

\* Some group of the drawn list has a guest index list whose length is not
\* the number of courses minus one.
MismatchedGuestIndexLength(groups_per_course) ==
    \E course \in DOMAIN groups_per_course :
      \E position \in DOMAIN groups_per_course[course] :
        Len(groups_per_course[course][position].guest_indices)
          # Len(groups_per_course) - 1

\* C16: constructing a Solution raises an error when groups_per_course is
\* empty or when any group of any course has a guest_indices list whose
\* length is not courses - 1, so that a Solution that is constructed, and
\* one that get_paths_per_host has decoded, has no such group.
ConstructionRejectsMismatch ==
    /\ (stage # "input" /\ (arg_solution = <<>> \/ MismatchedGuestIndexLength(arg_solution)))
         => stage = "TypeError"
    /\ stage \in {"constructed", "decoded"}
         => (arg_solution # <<>> /\ ~MismatchedGuestIndexLength(arg_solution))

\* A list was rejected whose first course is well formed and whose only
\* mismatched guest index list is in a later course.
ConstructionRejectsMismatchWitness ==
    /\ stage = "TypeError"
    /\ arg_solution # <<>>
    /\ Len(arg_solution) >= 2
    /\ \A position \in DOMAIN arg_solution[1] :
         Len(arg_solution[1][position].guest_indices) = Len(arg_solution) - 1

(***************************************************************************)
(* One comparison `self == other` of two distinct Solution objects, such   *)
(* as a solution and its deep copy (no DinnerGroup object is shared).      *)
(***************************************************************************)
\* The solutions compared with the one drawn: its deep copy, the two
\* solutions of tests.py and the solutions of the smallest shapes.
ComparedWith(self) ==
    {self, TestSolutionSimple, TestSolutionComplex}
      \cup ValidSolutions(2, 2) \cup ValidSolutions(3, 3)

InitEquality ==
    /\ OptimizerUnused
    /\ RatingUnused
    /\ \E self \in AllValidSolutions \cup {TestSolutionSimple, TestSolutionComplex} :
         \E other \in ComparedWith(self) :
           \E propagates \in BOOLEAN :
             call_args = [op |-> "Solution.__eq__", self |-> self, other |-> other,
                          numpy_propagates |-> propagates]
    /\ call_result = NoResult

\* Solution.__eq__, lines 101-102.
CompareSolutions ==
    /\ call_args.op = "Solution.__eq__"
    /\ call_result = NoResult
    /\ call_result' = [outcome |-> Solution_eq(call_args.self, call_args.other,
                                               call_args.numpy_propagates)]
    /\ UNCHANGED <<call_args, optVars, rateVars>>

NextEquality == CompareSolutions

SpecEquality == InitEquality /\ [][NextEquality]_vars

\* C17: Solution equality is structural: `a == b` of two Solution objects
\* evaluates without error, and is true exactly when both have the same
\* cooking_team and the same guest_indices in every (course, position)
\* cell.
SolutionEqualityIsStructural ==
    (call_args.op = "Solution.__eq__" /\ call_result # NoResult)
    => /\ call_result.outcome \in {"True", "False"}
       /\ call_result.outcome = "True"
            <=> /\ Len(call_args.self) = Len(call_args.other)
                /\ \A course \in DOMAIN call_args.self :
                     /\ Len(call_args.self[course]) = Len(call_args.other[course])
                     /\ \A position \in DOMAIN call_args.self[course] :
                          LET a == call_args.self[course][position]
                              b == call_args.other[course][position]
                          IN  /\ a.cooking_team = b.cooking_team
                              /\ a.guest_indices = b.guest_indices

(***************************************************************************)
(* dinnerPlanner.py: DinnerPlanner.plan_dinner, up to the call of the      *)
(* optimizer in line 91.                                                   *)
(***************************************************************************)
MaxPlannerTeams == 3
MaxCourses == 2

\* A team's address when the roster has none (None, or the empty string):
\* `not dinner_team.address` is true exactly for it.
NoAddress == ""

\* dinnerTeam.py: a team record as xlsxInput.py fills it.
DinnerTeam(address) == [address |-> address]

\* RaterType, lines 11-14.
RaterType == {"DIVERSITY", "WALKING_DIST", "WALKING_DIST_FINAL"}

\* googleApi.py, get_walking_duration: the duration in seconds, or an
\* Exception when the request fails (no connection, a response status
\* other than 200, a status other than OK).
get_walking_duration(google_api, str_from, str_to) ==
    IF google_api.up
    THEN [outcome |-> "returned", value |-> google_api.duration]
    ELSE [outcome |-> "Exception"]

\* next((wrt for wrt in weighted_rater_types if wrt[1] == type), None),
\* lines 33, 39 and 59; None is the empty tuple here.
RECURSIVE NextOfType(_, _, _)
NextOfType(weighted_rater_types, type, k) ==
    IF k > Len(weighted_rater_types) THEN <<>>
    ELSE IF weighted_rater_types[k][2] = type THEN weighted_rater_types[k]
    ELSE NextOfType(weighted_rater_types, type, k + 1)

\* Lines 46-53: the row of dinner_team1 from dinner_team2 number j on.
RECURSIVE DistMatrixRow(_, _, _, _, _)
DistMatrixRow(google_api, dinner_teams, i, j, dist_matrix_row) ==
    IF j > Len(dinner_teams) THEN [outcome |-> "built", row |-> dist_matrix_row]
    ELSE IF dinner_teams[j].address = NoAddress THEN [outcome |-> "ValueError"]
    ELSE IF dinner_teams[i].address = dinner_teams[j].address
         THEN DistMatrixRow(google_api, dinner_teams, i, j + 1, Append(dist_matrix_row, 0))
    ELSE LET distance == get_walking_duration(google_api, dinner_teams[i].address,
                                              dinner_teams[j].address)
         IN  IF distance.outcome # "returned" THEN [outcome |-> distance.outcome]
             ELSE DistMatrixRow(google_api, dinner_teams, i, j + 1,
                                Append(dist_matrix_row, distance.value))

\* Lines 41-54: the distance matrix from dinner_team1 number i on.
RECURSIVE DistMatrix(_, _, _, _)
DistMatrix(google_api, dinner_teams, i, dist_matrix) ==
    IF i > Len(dinner_teams) THEN [outcome |-> "built", matrix |-> dist_matrix]
    ELSE IF dinner_teams[i].address = NoAddress THEN [outcome |-> "ValueError"]
    ELSE LET row == DistMatrixRow(google_api, dinner_teams, i, 1, <<>>)
         IN  IF row.outcome # "built" THEN [outcome |-> row.outcome]
             ELSE DistMatrix(google_api, dinner_teams, i + 1, Append(dist_matrix, row.row))

\* Lines 65-70: the distances to the final location from team number i on.
RECURSIVE DistToFinalLocation(_, _, _, _, _)
DistToFinalLocation(google_api, dinner_teams, final_location, i, dist_to_final_location) ==
    IF i > Len(dinner_teams) THEN [outcome |-> "built", vector |-> dist_to_final_location]
    ELSE IF dinner_teams[i].address = NoAddress THEN [outcome |-> "ValueError"]
    ELSE LET distance == get_walking_duration(google_api, dinner_teams[i].address,
                                              final_location)
         IN  IF distance.outcome # "returned" THEN [outcome |-> distance.outcome]
             ELSE DistToFinalLocation(google_api, dinner_teams, final_location, i + 1,
                                      Append(dist_to_final_location, distance.value))

\* Lines 80-91: the rater handed to the optimizer, and the call of optimize.
\* The branch of line 83 is taken only by an empty list, whose first
\* element it then reads.
PlanWithRaters(raters, initializer, team_count, courses) ==
    IF Len(raters) > 0
    THEN LET rater == CombinedSolutionRater_init(raters)
         IN  IF rater.outcome # "constructed" THEN [outcome |-> rater.outcome]
             ELSE [outcome |-> "optimize", initializer |-> initializer,
                   rater |-> [kind |-> "combined", solution_raters |-> rater.solution_raters,
                              total_weight |-> rater.total_weight],
                   team_count |-> team_count, course_count |-> courses]
    ELSE [outcome |-> "IndexError"]

\* Lines 58-78: the final-location criterion and the choice of initializer.
\* The rater constructor of line 71 takes teams_per_course minima and
\* maxima out of len(dinner_teams) distances and does not raise.
PlanFinalLocation(google_api, dinner_teams, weighted_rater_types, courses, final_location, raters) ==
    LET final_dist_rater_type == NextOfType(weighted_rater_types, "WALKING_DIST_FINAL", 1)
        teams_per_course == Len(dinner_teams) \div courses
    IN  IF final_dist_rater_type = <<>>
        THEN PlanWithRaters(raters, [kind |-> "RandomInitializer"], Len(dinner_teams), courses)
        ELSE IF final_location = NoAddress THEN [outcome |-> "ValueError"]
        ELSE LET dist == DistToFinalLocation(google_api, dinner_teams, final_location, 1, <<>>)
             IN  IF dist.outcome # "built" THEN [outcome |-> dist.outcome]
                 ELSE PlanWithRaters(
                        Append(raters, <<final_dist_rater_type[1],
                                         [kind |-> "final_location",
                                          dist_to_final_loc |-> dist.vector,
                                          teams_per_course |-> teams_per_course]>>),
                        [kind |-> "FinalLocationInitializer",
                         dist_to_final_loc |-> dist.vector],
                        Len(dinner_teams), courses)

\* Lines 38-56: the walking distance criterion.  The rater constructor of
\* line 55 raises only for an empty or non-square matrix, which the matrix
\* of a non-empty team list never is.
PlanWalkingDist(google_api, dinner_teams, weighted_rater_types, courses, final_location, raters) ==
    LET dist_rater_type == NextOfType(weighted_rater_types, "WALKING_DIST", 1)
    IN  IF dist_rater_type = <<>>
        THEN PlanFinalLocation(google_api, dinner_teams, weighted_rater_types, courses,
                               final_location, raters)
        ELSE LET dist == DistMatrix(google_api, dinner_teams, 1, <<>>)
             IN  IF dist.outcome # "built" THEN [outcome |-> dist.outcome]
                 ELSE PlanFinalLocation(google_api, dinner_teams, weighted_rater_types,
                        courses, final_location,
                        Append(raters, <<dist_rater_type[1],
                                         [kind |-> "inter_distance",
                                          distance_matrix |-> dist.matrix,
                                          courses |-> courses]>>))

\* plan_dinner, lines 21-91.
plan_dinner(google_api, dinner_teams, weighted_rater_types, courses, final_location) ==
    IF Len(dinner_teams) = 0 THEN [outcome |-> "ValueError"]
    ELSE IF Len(weighted_rater_types) = 0 THEN [outcome |-> "ValueError"]
    ELSE IF courses = 0 THEN [outcome |-> "ZeroDivisionError"]
    ELSE LET diversity_rater_type == NextOfType(weighted_rater_types, "DIVERSITY", 1)
             raters == IF diversity_rater_type = <<>> THEN <<>>
                       ELSE <<<<diversity_rater_type[1], [kind |-> "diversity"]>>>>
         IN  PlanWalkingDist(google_api, dinner_teams, weighted_rater_types, courses,
                             final_location, raters)

(***************************************************************************)
(* One call of plan_dinner.                                                *)
(***************************************************************************)
\* The sequences of at most n elements of a set.
SeqUpTo(S, n) == UNION {[1..len -> S] : len \in 0..n}

\* The weights drawn for a criterion.
PlannerWeights == {0, 1}

\* The mapping service drawn: it answers every request with one duration,
\* or fails every request.
GoogleApis == [up : BOOLEAN, duration : 1..MaxLegDist]

InitPlanner ==
    /\ OptimizerUnused
    /\ RatingUnused
    /\ \E dinner_teams \in SeqUpTo({DinnerTeam(a) : a \in {NoAddress, "A", "B"}}, MaxPlannerTeams) :
         \E weighted_rater_types \in SeqUpTo(PlannerWeights \X RaterType, 2) :
           \E courses \in 0..MaxCourses :
             \E final_location \in {NoAddress, "F"} :
               \E google_api \in GoogleApis :
                 call_args = [op |-> "plan_dinner", google_api |-> google_api,
                              dinner_teams |-> dinner_teams,
                              weighted_rater_types |-> weighted_rater_types,
                              courses |-> courses, final_location |-> final_location]
    /\ call_result = NoResult

\* DinnerPlanner.plan_dinner.
PlanDinner ==
    /\ call_args.op = "plan_dinner"
    /\ call_result = NoResult
    /\ call_result' = plan_dinner(call_args.google_api, call_args.dinner_teams,
                                  call_args.weighted_rater_types, call_args.courses,
                                  call_args.final_location)
    /\ UNCHANGED <<call_args, optVars, rateVars>>

NextPlanner == PlanDinner

SpecPlanner == InitPlanner /\ [][NextPlanner]_vars

\* Some criterion of the list is of the given type.
Requested(weighted_rater_types, type) ==
    \E k \in DOMAIN weighted_rater_types : weighted_rater_types[k][2] = type

\* C18: plan_dinner fails with a ValueError, and does not run the
\* optimizer, when the team list is empty, when the criteria list is empty,
\* when WALKING_DIST or WALKING_DIST_FINAL is requested and some team has no
\* address, and when WALKING_DIST_FINAL is requested and no final venue is
\* supplied.
PlannerRejectsInvalidArguments ==
    (/\ call_args.op = "plan_dinner"
     /\ call_result # NoResult
     /\ \/ Len(call_args.dinner_teams) = 0
        \/ Len(call_args.weighted_rater_types) = 0
        \/ /\ \/ Requested(call_args.weighted_rater_types, "WALKING_DIST")
              \/ Requested(call_args.weighted_rater_types, "WALKING_DIST_FINAL")
           /\ \E k \in DOMAIN call_args.dinner_teams :
                call_args.dinner_teams[k].address = NoAddress
        \/ /\ Requested(call_args.weighted_rater_types, "WALKING_DIST_FINAL")
           /\ call_args.final_location = NoAddress)
    => call_result.outcome = "ValueError"

\* Courses, positions and list indices counted from 0 as in solution.py.
CoursesOf(sol) == 0..(Len(sol) - 1)
PositionsOf(sol) == 0..(Len(sol[1]) - 1)
GroupAt(sol, c, p) == sol[c + 1][p + 1]
GuestIndexAt(sol, c, p, index) == GroupAt(sol, c, p).guest_indices[index + 1]

\* The hosts of course 0 eat every course at their own position.
FirstCourseHostsKeepPosition ==
    \A p \in PositionsOf(arg_solution) : \A c2 \in CoursesOf(arg_solution) :
      the_paths[GroupAt(arg_solution, 0, p).cooking_team][c2 + 1]
        = GroupAt(arg_solution, c2, p).cooking_team

MaxGenerationLength == 3

\* The solutions and scores the entries are drawn from.
InsertionSolutions == ValidSolutions(2, 2) \cup {TestSolutionSimple, TestSolutionComplex}
InsertionScores == {Fraction(k, 2) : k \in 0..2}

\* A generation list as _create_new_generation keeps it: best first, and
\* one solution always with the one score its rater gives it.
GenerationLists ==
    {list \in SeqUpTo([solution : InsertionSolutions, score : InsertionScores],
                      MaxGenerationLength) :
       /\ Len(list) >= 1
       /\ \A k \in 1..(Len(list) - 1) : ScoreGeq(list[k].score, list[k + 1].score)
       /\ \A k, m \in DOMAIN list :
            list[k].solution = list[m].solution => list[k].score = list[m].score}

InitInsertion ==
    /\ OptimizerUnused
    /\ RatingUnused
    /\ \E generation_list \in GenerationLists :
         \E solution \in [solution : InsertionSolutions, score : InsertionScores] :
           \E propagates \in BOOLEAN :
             /\ \A k \in DOMAIN generation_list :
                  generation_list[k].solution = solution.solution
                    => generation_list[k].score = solution.score
             /\ call_args = [op |-> "_insert_into_generation_list",
                             generation_list |-> generation_list,
                             solution |-> solution,
                             numpy_propagates |-> propagates]
    /\ call_result = NoResult

\* _insert_into_generation_list, lines 135-159: generation_list afterwards
\* and the value returned, or the error of the comparison of line 150.
InsertIntoGenerationList ==
    /\ call_args.op = "_insert_into_generation_list"
    /\ call_result = NoResult
    /\ \E done \in {insert_into_generation_list(call_args.generation_list,
                                                call_args.solution,
                                                call_args.numpy_propagates)} :
         call_result' = [outcome |-> IF done.raised THEN "AttributeError" ELSE "returned",
                         inserted |-> done.inserted,
                         generation_list |-> done.list]
    /\ UNCHANGED <<call_args, optVars, rateVars>>

NextInsertion == InsertIntoGenerationList

SpecInsertion == InitInsertion /\ [][NextInsertion]_vars

\* The entries of a list that the child's score is strictly greater than.
MembersBeaten(generation_list, child) ==
    {k \in DOMAIN generation_list : ScoreLess(generation_list[k].score, child.score)}

\* The list after is the list before with the child put in at some place
\* and the last entry dropped.
InsertedEvictingLast(before, child, after) ==
    /\ Len(after) = Len(before)
    /\ \E j \in DOMAIN after :
         /\ after[j] = child
         /\ \A k \in 1..(j - 1) : after[k] = before[k]
         /\ \A k \in (j + 1)..Len(after) : after[k] = before[k - 1]

\* C20: _insert_into_generation_list inserts every child whose score is
\* strictly greater than the score of at least one member and which is not
\* structurally equal to a member, also when the only member it beats is
\* the last one, and the list then holds the child and all former entries
\* but the last; a child that beats no member is not inserted and the list
\* stays as it was.
InsertionIsElitist ==
    (call_args.op = "_insert_into_generation_list" /\ call_result # NoResult)
    => LET generation_list == call_args.generation_list
           child == call_args.solution
           beaten == MembersBeaten(generation_list, child)
           duplicate == \E k \in DOMAIN generation_list :
                          StructurallyEqual(child.solution, generation_list[k].solution)
       IN  /\ (beaten # {} /\ ~duplicate)
                => /\ call_result.outcome = "returned"
                   /\ call_result.inserted
                   /\ InsertedEvictingLast(generation_list, child,
                                           call_result.generation_list)
           /\ beaten = {}
                => /\ ~call_result.inserted
                   /\ call_result.generation_list = generation_list

\* The number of entries of a list that hold the given solution.
Occurrences(generation_list, solution) ==
    Cardinality({k \in DOMAIN generation_list :
                   StructurallyEqual(generation_list[k].solution, solution)})

\* C21: _insert_into_generation_list never inserts a child that is
\* structurally equal to a solution already in the list, so that a solution
\* that entered the list by insertion does not occur in it twice.
InsertionKeepsNoDuplicate ==
    (call_args.op = "_insert_into_generation_list" /\ call_result # NoResult)
    => /\ Occurrences(call_args.generation_list, call_args.solution.solution) > 0
            => ~call_result.inserted
       /\ call_result.inserted
            => Occurrences(call_result.generation_list, call_args.solution.solution) = 1

\* The scores of a list do not increase from its first to its last entry.
BestFirst(generation_list) ==
    \A k \in 1..(Len(generation_list) - 1) :
      generation_list[k].score.num * generation_list[k + 1].score.den
        >= generation_list[k + 1].score.num * generation_list[k].score.den

\* C22: in every reachable state of the optimizer the population, and the
\* new population a generation step is building, hold exactly
\* CANDIDATE_NUMBER_PER_GENERATION entries ordered best-first, after the
\* initial generation and after every insertion attempt, inserting or not.
PopulationFixedSizeBestFirst ==
    /\ Len(current_generation) = CANDIDATE_NUMBER_PER_GENERATION
    /\ Len(new_gen) = CANDIDATE_NUMBER_PER_GENERATION
    /\ BestFirst(current_generation)
    /\ BestFirst(new_gen)

\* A generation step has inserted a child in front of a member with a lower
\* score and has made a further attempt since.
PopulationFixedSizeBestFirstWitness ==
    /\ pc = "generation"
    /\ solution_idx > 1
    /\ new_gen # current_generation
    /\ new_gen[1].score.num * new_gen[2].score.den
         > new_gen[2].score.num * new_gen[1].score.den

(***************************************************************************)
(* Objects with identity.  The heap is the list of the objects allocated   *)
(* so far and an object's address its place in that list.  A list of       *)
(* numbers holds the numbers themselves, every other list holds addresses. *)
(***************************************************************************)
\* A new object: the heap with it, and its address.
Allocate(heap, object) == [heap |-> Append(heap, object), addr |-> Len(heap) + 1]

\* The copying of copy.deepcopy(x, memo) with DinnerGroup.__deepcopy__
\* (solution.py 27-33) and Solution.__deepcopy__ (107-114): the object at
\* address x of source is copied into heap.  An object already in memo is
\* copied to the same copy again, a list is copied item by item (a number
\* is its own copy), a DinnerGroup with its guest_indices, a Solution with
\* its groups_per_course, a SolutionWithScore with its solution.
RECURSIVE CopyObject(_, _, _, _)
RECURSIVE CopyItems(_, _, _, _, _)
CopyObject(source, heap, memo, x) ==
    IF x \in DOMAIN memo THEN [heap |-> heap, memo |-> memo, addr |-> memo[x]]
    ELSE LET object == source[x]
         IN  IF object.type = "list_of_int"
             THEN LET new == Allocate(heap, object)
                  IN  [heap |-> new.heap, memo |-> (x :> new.addr) @@ memo, addr |-> new.addr]
             ELSE IF object.type = "list"
             THEN LET items == CopyItems(source, heap, memo, object.items, <<>>)
                      new == Allocate(items.heap, [type |-> "list", items |-> items.items])
                  IN  [heap |-> new.heap, memo |-> (x :> new.addr) @@ items.memo,
                       addr |-> new.addr]
             ELSE IF object.type = "DinnerGroup"
             THEN LET guest_indices == CopyObject(source, heap, memo, object.guest_indices)
                      new == Allocate(guest_indices.heap,
                                      [type |-> "DinnerGroup",
                                       cooking_team |-> object.cooking_team,
                                       guest_indices |-> guest_indices.addr])
                  IN  [heap |-> new.heap, memo |-> (x :> new.addr) @@ guest_indices.memo,
                       addr |-> new.addr]
             ELSE IF object.type = "Solution"
             THEN LET groups_per_course ==
                          CopyObject(source, heap, memo, object.groups_per_course)
                      new == Allocate(groups_per_course.heap,
                                      [type |-> "Solution",
                                       groups_per_course |-> groups_per_course.addr])
                  IN  [heap |-> new.heap, memo |-> (x :> new.addr) @@ groups_per_course.memo,
                       addr |-> new.addr]
             ELSE LET solution == CopyObject(source, heap, memo, object.solution)
                      new == Allocate(solution.heap,
                                      [type |-> "SolutionWithScore",
                                       solution |-> solution.addr,
                                       score |-> object.score])
                  IN  [heap |-> new.heap, memo |-> (x :> new.addr) @@ solution.memo,
                       addr |-> new.addr]

\* The items of a list copied one after the other with one memo.
CopyItems(source, heap, memo, items, copied) ==
    IF Len(items) = 0 THEN [heap |-> heap, memo |-> memo, items |-> copied]
    ELSE LET first == CopyObject(source, heap, memo, Head(items))
         IN  CopyItems(source, first.heap, first.memo, Tail(items),
                       Append(copied, first.addr))

\* The mutant of deepcopy: the object itself is handed back, as a plain
\* assignment would.
deepcopy_SameObject(heap, memo, x) == [heap |-> heap, memo |-> memo, addr |-> x]

\* copy.deepcopy(x, memo): the copy is made of new objects of the same heap.
deepcopy(heap, memo, x) == CopyObject(heap, heap, memo, x)

\* The objects that the given ones still refer to, the others being
\* freed: the heap of those objects alone, allocated in the order in which
\* they are first met, and the new addresses of the given ones.  Objects
\* that were one object are one object again.
FreeUnreferenced(heap, roots) ==
    LET kept == CopyItems(heap, <<>>, <<>>, roots, <<>>)
    IN  [heap |-> kept.heap, roots |-> kept.items]

\* The addresses of the course lists of a Solution object, and of the group
\* at a cell (courses and positions from 1).
CourseListsAt(heap, solution) == heap[heap[solution].groups_per_course].items
GroupAddress(heap, solution, course, position) ==
    heap[CourseListsAt(heap, solution)[course]].items[position]

\* What a Solution object holds: its groups_per_course as a value.
SolutionAt(heap, solution) ==
    [course \in 1..Len(CourseListsAt(heap, solution)) |->
       [position \in 1..Len(heap[CourseListsAt(heap, solution)[course]].items) |->
          LET group == heap[GroupAddress(heap, solution, course, position)]
          IN  DinnerGroup(group.cooking_team, heap[group.guest_indices].items)]]

\* What a generation list holds: the solution and the score of every entry.
GenerationAt(heap, generation_list) ==
    [k \in 1..Len(heap[generation_list].items) |->
       LET entry == heap[heap[generation_list].items[k]]
       IN  SolutionWithScore(SolutionAt(heap, entry.solution), entry.score)]

\* initializer.py, lines 36-44: the groups of one course from position
\* meal_group on, each a new DinnerGroup with a new guest_indices list.
RECURSIVE NewCourse(_, _, _, _)
NewCourse(heap, course, meal_group, groups) ==
    IF meal_group > Len(course) THEN [heap |-> heap, items |-> groups]
    ELSE LET guest_indices ==
                 Allocate(heap, [type |-> "list_of_int",
                                 items |-> course[meal_group].guest_indices])
             group == Allocate(guest_indices.heap,
                               [type |-> "DinnerGroup",
                                cooking_team |-> course[meal_group].cooking_team,
                                guest_indices |-> guest_indices.addr])
         IN  NewCourse(group.heap, course, meal_group + 1, Append(groups, group.addr))

\* initializer.py, lines 36-44: the courses from number course on.
RECURSIVE NewCourses(_, _, _, _)
NewCourses(heap, groups_per_course, course, lists) ==
    IF course > Len(groups_per_course) THEN [heap |-> heap, items |-> lists]
    ELSE LET groups == NewCourse(heap, groups_per_course[course], 1, <<>>)
             list == Allocate(groups.heap, [type |-> "list", items |-> groups.items])
         IN  NewCourses(list.heap, groups_per_course, course + 1, Append(lists, list.addr))

\* The Solution object an initializer returns (initializer.py 36-44).
NewSolution(heap, groups_per_course) ==
    LET lists == NewCourses(heap, groups_per_course, 1, <<>>)
        list == Allocate(lists.heap, [type |-> "list", items |-> lists.items])
    IN  Allocate(list.heap, [type |-> "Solution", groups_per_course |-> list.addr])

\* optimizer.py, lines 192-193: the entries of the initial generation from
\* number k on, each a new SolutionWithScore of the one initial_guess.
RECURSIVE NewInitialEntries(_, _, _, _, _)
NewInitialEntries(heap, initial_guess, rating, k, entries) ==
    IF k > CANDIDATE_NUMBER_PER_GENERATION THEN [heap |-> heap, items |-> entries]
    ELSE LET entry == Allocate(heap, [type |-> "SolutionWithScore",
                                      solution |-> initial_guess,
                                      score |-> rating])
         IN  NewInitialEntries(entry.heap, initial_guess, rating, k + 1,
                               Append(entries, entry.addr))

\* _create_initial_generation, lines 181-195, for the solution the
\* initializer made.
create_initial_generation(groups_per_course) ==
    LET initial_guess == NewSolution(<<>>, groups_per_course)
        entries == NewInitialEntries(initial_guess.heap, initial_guess.addr,
                                     rate_solution(groups_per_course), 1, <<>>)
    IN  Allocate(entries.heap, [type |-> "list", items |-> entries.items])

\* Lines 110-113 on objects: the cooking teams of two groups exchanged.
SwapHostsAt(heap, solution, course1, host1, course2, host2) ==
    LET group1 == GroupAddress(heap, solution, course1, host1)
        group2 == GroupAddress(heap, solution, course2, host2)
        temp == heap[group1].cooking_team
        step == [heap EXCEPT ![group1].cooking_team = heap[group2].cooking_team]
    IN  [step EXCEPT ![group2].cooking_team = temp]

\* Lines 128-131 on objects: one entry of the guest_indices lists of two
\* groups exchanged.
SwapGuestsAt(heap, solution, course, guest1, guest2, index) ==
    LET list1 == heap[GroupAddress(heap, solution, course, guest1)].guest_indices
        list2 == heap[GroupAddress(heap, solution, course, guest2)].guest_indices
        temp == heap[list1].items[index]
        step == [heap EXCEPT ![list1].items[index] = heap[list2].items[index]]
    IN  [step EXCEPT ![list2].items[index] = temp]

\* Lines 118-131 on objects: the guest swaps of one mutation, in order.
RECURSIVE ApplyGuestSwapsAt(_, _, _)
ApplyGuestSwapsAt(heap, solution, swaps) ==
    IF Len(swaps) = 0 THEN heap
    ELSE ApplyGuestSwapsAt(SwapGuestsAt(heap, solution, Head(swaps).course,
                                        Head(swaps).guest1, Head(swaps).guest2,
                                        Head(swaps).index),
                           solution, Tail(swaps))

\* _mutate_solution, lines 85-132, on objects, for one outcome of its draws:
\* the heap afterwards and the address of mutated_solution.
mutate_solution_at(heap, parent_solution, draw) ==
    LET mutated_solution == deepcopy(heap, <<>>, parent_solution)
    IN  [heap |-> IF draw.mutate_dinner_hosts
                  THEN SwapHostsAt(mutated_solution.heap, mutated_solution.addr,
                                   draw.course1, draw.host1, draw.course2, draw.host2)
                  ELSE ApplyGuestSwapsAt(mutated_solution.heap, mutated_solution.addr,
                                         draw.swaps),
         addr |-> mutated_solution.addr]

\* _insert_into_generation_list, lines 135-159, on objects: the list object
\* is changed in place.
insert_into_generation_list_at(heap, generation_list, solution, propagates) ==
    LET entries == GenerationAt(heap, generation_list)
        child == SolutionWithScore(SolutionAt(heap, heap[solution].solution),
                                   heap[solution].score)
        i == ScanGeneration(entries, child.score, 0)
        eq == IF i > 0
              THEN Solution_eq(child.solution, entries[i].solution, propagates)
              ELSE "False"
    IN  IF eq = "AttributeError"
        THEN [raised |-> TRUE, inserted |-> FALSE, heap |-> heap]
        ELSE IF eq = "True"
        THEN [raised |-> FALSE, inserted |-> FALSE, heap |-> heap]
        ELSE IF i < Len(entries)
        THEN [raised |-> FALSE, inserted |-> TRUE,
              heap |-> [heap EXCEPT ![generation_list].items =
                           ListPop(ListInsert(heap[generation_list].items, i - 1, solution))]]
        ELSE [raised |-> FALSE, inserted |-> FALSE, heap |-> heap]

(***************************************************************************)
(* _mutate_solution and _create_new_generation on objects: one call of     *)
(* _mutate_solution on a solution, and the calls of _create_new_generation *)
(* that optimize makes one after the other, from the initial generation.   *)
(***************************************************************************)
MaxGenerations == 2

InitObjects ==
    /\ OptimizerUnused
    /\ RatingUnused
    /\ \/ \E groups_per_course \in AllValidSolutions :
            \E parent_solution \in {NewSolution(<<>>, groups_per_course)} :
              call_args = [op |-> "_mutate_solution",
                           heap |-> parent_solution.heap,
                           parent_solution |-> parent_solution.addr]
       \/ \E sh \in Shapes : \E random_indices \in {[i \in 1..sh[1] |-> i - 1]} :
            \E propagates \in BOOLEAN :
              \E prev_gen \in {create_initial_generation(
                                 RandomInitializer_create_initial_solution(
                                   sh[1], sh[2], random_indices))} :
                call_args = [op |-> "_create_new_generation",
                             heap |-> prev_gen.heap,
                             prev_gen |-> prev_gen.addr,
                             numpy_propagates |-> propagates,
                             generation |-> 1]
    /\ call_result = NoResult

\* _mutate_solution, lines 85-132: "hang" when the retry loop of the drawn
\* branch can never be left.
MutateSolutionAt ==
    /\ call_args.op = "_mutate_solution"
    /\ call_result = NoResult
    /\ \E mutate_dinner_hosts \in BOOLEAN :
         LET parent == SolutionAt(call_args.heap, call_args.parent_solution)
         IN  IF MutationHangs(parent, mutate_dinner_hosts)
             THEN call_result' = [outcome |-> "hang", heap |-> call_args.heap]
             ELSE \E draw \in IF mutate_dinner_hosts THEN HostDraws(parent)
                                                     ELSE GuestDraws(parent) :
                    \E mutated \in {mutate_solution_at(call_args.heap,
                                                       call_args.parent_solution, draw)} :
                      call_result' = [outcome |-> "returned", heap |-> mutated.heap,
                                      mutated_solution |-> mutated.addr, draw |-> draw]
    /\ UNCHANGED <<call_args, optVars, rateVars>>

\* Line 167: new_gen = deepcopy(prev_gen).  What the call holds from here on
\* is prev_gen and new_gen.
CopyGeneration ==
    /\ call_args.op = "_create_new_generation"
    /\ call_result = NoResult
    /\ \E new_generation \in {deepcopy(call_args.heap, <<>>, call_args.prev_gen)} :
       \E kept \in {FreeUnreferenced(new_generation.heap,
                                     <<call_args.prev_gen, new_generation.addr>>)} :
         call_result' = [outcome |-> "running", heap |-> kept.heap,
                         prev_gen |-> kept.roots[1], new_gen |-> kept.roots[2],
                         solution_idx |-> 1, mutation_j |-> 0]
    /\ UNCHANGED <<call_args, optVars, rateVars>>

\* The end of one round of the loops of lines 170-171: the child is freed
\* unless new_gen holds it, and the counters step.
NextRound(result, heap) ==
    LET kept == FreeUnreferenced(heap, <<result.prev_gen, result.new_gen>>)
        last == result.mutation_j + 1 >= MUTATIONS_PER_SOLUTION
    IN  [result EXCEPT !.heap = kept.heap,
                       !.prev_gen = kept.roots[1],
                       !.new_gen = kept.roots[2],
                       !.mutation_j = IF last THEN 0 ELSE result.mutation_j + 1,
                       !.solution_idx = IF last THEN result.solution_idx + 1
                                        ELSE result.solution_idx]

\* Lines 170-177: one round of the inner loop: a member of prev_gen is
\* mutated, the child rated and its SolutionWithScore offered to new_gen.
MutateIntoGeneration ==
    /\ call_args.op = "_create_new_generation"
    /\ call_result.outcome = "running"
    /\ call_result.solution_idx <= Len(call_result.heap[call_result.prev_gen].items)
    /\ \E mutate_dinner_hosts \in BOOLEAN :
         LET heap == call_result.heap
             solution == heap[heap[call_result.prev_gen].items[call_result.solution_idx]]
             parent == SolutionAt(heap, solution.solution)
         IN  IF MutationHangs(parent, mutate_dinner_hosts)
             THEN call_result' = [call_result EXCEPT !.outcome = "hang"]
             ELSE \E draw \in IF mutate_dinner_hosts THEN HostDraws(parent)
                                                     ELSE GuestDraws(parent) :
                    \E mutated \in {mutate_solution_at(heap, solution.solution, draw)} :
                      IF rate_solution_raises(SolutionAt(mutated.heap, mutated.addr)) # "none"
                      THEN call_result' = [NextRound(call_result, mutated.heap)
                                             EXCEPT !.outcome = "raised"]
                      ELSE
                      \E score \in {rate_solution(SolutionAt(mutated.heap, mutated.addr))} :
                      \E child \in {Allocate(mutated.heap,
                                             [type |-> "SolutionWithScore",
                                              solution |-> mutated.addr,
                                              score |-> score])} :
                      \E done \in {insert_into_generation_list_at(
                                     child.heap, call_result.new_gen, child.addr,
                                     call_args.numpy_propagates)} :
                        IF done.raised
                        THEN call_result' = [NextRound(call_result, done.heap)
                                               EXCEPT !.outcome = "raised"]
                        ELSE call_result' = NextRound(call_result, done.heap)
    /\ UNCHANGED <<call_args, optVars, rateVars>>

\* Line 179: return new_gen.
ReturnGeneration ==
    /\ call_args.op = "_create_new_generation"
    /\ call_result.outcome = "running"
    /\ call_result.solution_idx > Len(call_result.heap[call_result.prev_gen].items)
    /\ call_result' = [call_result EXCEPT !.outcome = "returned"]
    /\ UNCHANGED <<call_args, optVars, rateVars>>

\* Line 60: the next call, current_generation being the list returned; the
\* list it replaces is freed.
CallWithNewGeneration ==
    /\ call_args.op = "_create_new_generation"
    /\ call_result.outcome = "returned"
    /\ call_args.generation < MaxGenerations
    /\ \E kept \in {FreeUnreferenced(call_result.heap, <<call_result.new_gen>>)} :
         call_args' = [call_args EXCEPT !.heap = kept.heap,
                                        !.prev_gen = kept.roots[1],
                                        !.generation = call_args.generation + 1]
    /\ call_result' = NoResult
    /\ UNCHANGED <<optVars, rateVars>>

NextObjects ==
    \/ MutateSolutionAt
    \/ CopyGeneration
    \/ MutateIntoGeneration
    \/ ReturnGeneration
    \/ CallWithNewGeneration

SpecObjects == InitObjects /\ [][NextObjects]_vars

\* C23: _mutate_solution leaves its parent unchanged, every cooking_team
\* and every guest_indices entry of the parent being after the call what
\* it was before, and _create_new_generation leaves every solution and
\* score of the previous generation list unchanged.
ParentsUnchanged ==
    /\ (call_args.op = "_mutate_solution" /\ call_result # NoResult)
         => SolutionAt(call_result.heap, call_args.parent_solution)
              = SolutionAt(call_args.heap, call_args.parent_solution)
    /\ (call_args.op = "_create_new_generation" /\ call_result # NoResult)
         => GenerationAt(call_result.heap, call_result.prev_gen)
              = GenerationAt(call_args.heap, call_args.prev_gen)

\* A call of _create_new_generation has returned a list whose solutions are
\* not those of the list it was given.
ParentsUnchangedWitness ==
    /\ call_args.op = "_create_new_generation"
    /\ call_result.outcome = "returned"
    /\ GenerationAt(call_result.heap, call_result.new_gen)
         # GenerationAt(call_args.heap, call_args.prev_gen)

(***************************************************************************)
(* _mutate_solution called again and again: the solution an initializer    *)
(* returned is mutated, the child is mutated, and so on.  The solutions of *)
(* FinalLocationInitializer are among those of RandomInitializer (the same *)
(* loops over another order of the teams).                                 *)
(***************************************************************************)
InitMutations ==
    /\ OptimizerUnused
    /\ RatingUnused
    /\ \E sh \in Shapes : \E random_indices \in Permutations0(sh[1]) :
         call_args = [op |-> "_mutate_solution",
                      team_count |-> sh[1],
                      course_count |-> sh[2],
                      parent_solution |->
                        RandomInitializer_create_initial_solution(
                          sh[1], sh[2], random_indices)]
    /\ call_result = NoResult

\* _mutate_solution, lines 85-132: "hang" when the retry loop of the drawn
\* branch can never be left.
MutateSolution ==
    /\ call_args.op = "_mutate_solution"
    /\ call_result = NoResult
    /\ \E mutate_dinner_hosts \in BOOLEAN :
         IF MutationHangs(call_args.parent_solution, mutate_dinner_hosts)
         THEN call_result' = [outcome |-> "hang"]
         ELSE \E draw \in IF mutate_dinner_hosts
                          THEN HostDraws(call_args.parent_solution)
                          ELSE GuestDraws(call_args.parent_solution) :
                call_result' = [outcome |-> "returned",
                                mutated_solution |->
                                  mutate_solution(call_args.parent_solution, draw),
                                draw |-> draw]
    /\ UNCHANGED <<call_args, optVars, rateVars>>

\* Lines 172-173 in a later generation: the child is the parent of the next
\* call.
MutateAgain ==
    /\ call_args.op = "_mutate_solution"
    /\ call_result.outcome = "returned"
    /\ call_args' = [call_args EXCEPT !.parent_solution = call_result.mutated_solution]
    /\ call_result' = NoResult
    /\ UNCHANGED <<optVars, rateVars>>

NextMutations == MutateSolution \/ MutateAgain

SpecMutations == InitMutations /\ [][NextMutations]_vars

\* A solution has meal_group_count groups in each of its courses and
\* guest_indices of length courses - 1 in every group.
HasShape(sol, courses, meal_group_count) ==
    /\ Len(sol) = courses
    /\ \A course \in 1..Len(sol) :
         /\ Len(sol[course]) = meal_group_count
         /\ \A position \in 1..Len(sol[course]) :
              Len(sol[course][position].guest_indices) = courses - 1

\* C24: every solution _mutate_solution produces, after any number of
\* successive mutations, has in every course the number of groups of its
\* parent and guest_indices of length courses - 1 in every group.
MutationKeepsShape ==
    (call_args.op = "_mutate_solution" /\ call_result.outcome = "returned")
      => /\ HasShape(call_args.parent_solution, call_args.course_count,
                     call_args.team_count \div call_args.course_count)
         /\ HasShape(call_result.mutated_solution, call_args.course_count,
                     call_args.team_count \div call_args.course_count)

\* A solution that mutations made (a guest index is no longer the position
\* of its group) has been mutated again, by two guest swaps.
MutationKeepsShapeWitness ==
    /\ call_args.op = "_mutate_solution"
    /\ call_result.outcome = "returned"
    /\ \E course \in 1..Len(call_args.parent_solution) :
         call_args.parent_solution[course][1].guest_indices[1] # 0
    /\ Len(call_result.draw.swaps) = 2
    /\ call_result.mutated_solution # call_args.parent_solution

(***************************************************************************)
(* The normalisation of DiversitySolutionRater, checked under              *)
(* SpecDiversity.                                                          *)
(***************************************************************************)
\* The overlap total of a path map with the teams 0..n-1: for every ordered
\* pair of distinct teams, the number of hosts both paths hold beyond the
\* first.
OverlapTotal(paths) ==
    LET n == Cardinality(DOMAIN paths)
        shared(team1, team2) == Cardinality(Range(paths[team1]) \cap Range(paths[team2]))
        beyond(i) == LET team1 == (i - 1) \div n
                         team2 == (i - 1) % n
                     IN  IF team1 # team2 /\ shared(team1, team2) > 1
                         THEN shared(team1, team2) - 1 ELSE 0
    IN  SumSeq([i \in 1..(n * n) |-> beyond(i)])

\* score = (1 - overlaps / maximum_overlaps)^2 for a score held as a
\* fraction.
ScoreIsNormalizedBy(score, overlaps, maximum_overlaps) ==
    score.num * maximum_overlaps * maximum_overlaps
      = (maximum_overlaps - overlaps) * (maximum_overlaps - overlaps) * score.den

\* C25 as stated: the overlap total is normalised by (courses-1)^2 times
\* the number of teams hosting one course, team_count / courses.
DiversityNormalizedPerCourse ==
    stage = "rated"
    => LET courses == Len(the_paths[0])
           team_count == Cardinality(DOMAIN the_paths)
       IN  ScoreIsNormalizedBy(the_score, OverlapTotal(the_paths),
                               (courses - 1) * (courses - 1) * (team_count \div courses))

\* C25: the score DiversitySolutionRater returns is
\* (1 - overlaps / maximum_overlaps)^2 with maximum_overlaps =
\* (courses-1)^2 * team_count, team_count being the number of paths.
DiversityNormalizedPerTeam ==
    stage = "rated"
    => LET courses == Len(the_paths[0])
           team_count == Cardinality(DOMAIN the_paths)
       IN  /\ the_score.den > 0
           /\ ScoreIsNormalizedBy(the_score, OverlapTotal(the_paths),
                                  (courses - 1) * (courses - 1) * team_count)

\* A rated solution of more than one group per course with some overlap,
\* but less than the maximum.
DiversityNormalizedPerTeamWitness ==
    /\ stage = "rated"
    /\ Cardinality(DOMAIN the_paths) > Len(the_paths[0])
    /\ OverlapTotal(the_paths) > 0
    /\ ~ScoreIs(the_score, 0)

(***************************************************************************)
(* The rater and the initializer plan_dinner hands to the optimizer,       *)
(* checked under SpecPlanner.                                              *)
(***************************************************************************)
\* Nothing but the weights can make the call fail: there are teams and
\* courses, and when a distance criterion is requested every team has an
\* address, the final venue is given where it is needed and the mapping
\* service answers.
PlannerDataComplete ==
    /\ Len(call_args.dinner_teams) > 0
    /\ call_args.courses > 0
    /\ \/ \A k \in DOMAIN call_args.weighted_rater_types :
            call_args.weighted_rater_types[k][2] = "DIVERSITY"
       \/ /\ call_args.google_api.up
          /\ \A k \in DOMAIN call_args.dinner_teams :
               call_args.dinner_teams[k].address # NoAddress
          /\ Requested(call_args.weighted_rater_types, "WALKING_DIST_FINAL")
               => call_args.final_location # NoAddress

\* The initializer handed to the optimizer is the FinalLocationInitializer
\* exactly when WALKING_DIST_FINAL is among the criteria, and the
\* RandomInitializer otherwise.
InitializerFollowsCriteria ==
    (call_args.op = "plan_dinner" /\ call_result.outcome = "optimize")
    => /\ call_result.initializer.kind \in {"FinalLocationInitializer", "RandomInitializer"}
       /\ call_result.initializer.kind = "FinalLocationInitializer"
            <=> Requested(call_args.weighted_rater_types, "WALKING_DIST_FINAL")

\* C26: when exactly one criterion is requested, plan_dinner hands that
\* rater itself to the optimizer, whatever its weight, and the call goes
\* through for every weight; a CombinedSolutionRater is built only for more
\* than one criterion; the FinalLocationInitializer is chosen exactly when
\* WALKING_DIST_FINAL is among the criteria, else the RandomInitializer.
SingleCriterionUsedDirectly ==
    (call_args.op = "plan_dinner" /\ call_result # NoResult)
    => /\ (Len(call_args.weighted_rater_types) = 1 /\ PlannerDataComplete)
            => /\ call_result.outcome = "optimize"
               /\ call_result.rater.kind # "combined"
       /\ InitializerFollowsCriteria

\* The solutions a state of SpecMutations holds: the parent and, once the
\* call has returned, the child.
MutationSolutions ==
    IF call_args.op # "_mutate_solution" THEN {}
    ELSE {call_args.parent_solution}
           \cup (IF call_result.outcome = "returned"
                 THEN {call_result.mutated_solution} ELSE {})

\* The teams that eat course c (from 1) at host h according to the paths.
TeamsAt(paths, c, h) == {team \in DOMAIN paths : paths[team][c] = h}

\* The course (from 1) a team hosts in a solution.
HostedCourse(sol, team) ==
    CHOOSE c \in 1..Len(sol) : \E q \in 1..Len(sol[c]) : sol[c][q].cooking_team = team

\* Every dinner group of the decoded paths has exactly as many teams as
\* there are courses: its host and one team hosting each other course.
GroupsAreComplete(sol) ==
    LET paths == get_paths_per_host(sol)
    IN  \A c \in 1..Len(sol) : \A q \in 1..Len(sol[c]) :
          LET h == sol[c][q].cooking_team
              teams == TeamsAt(paths, c, h)
          IN  /\ Cardinality(teams) = Len(sol)
              /\ h \in teams
              /\ \A a \in (1..Len(sol)) \ {c} :
                   Cardinality({team \in teams : HostedCourse(sol, team) = a}) = 1

ColumnIsPermutation(sol, c, k) ==
    /\ \A q \in 1..Len(sol[c]) :
         sol[c][q].guest_indices[k] \in 0..(Len(sol[c]) - 1)
    /\ \A q1, q2 \in 1..Len(sol[c]) :
         sol[c][q1].guest_indices[k] = sol[c][q2].guest_indices[k] => q1 = q2

\* C28: in every solution reachable by mutations from an initializer's
\* solution, in every course and for every guest index column
\* 0..courses-2, the values of the column over the groups of the course
\* are a permutation of 0..meal_group_count-1.
GuestColumnsArePermutations ==
    \A sol \in MutationSolutions :
      \A c \in 1..Len(sol) : \A k \in 1..(Len(sol) - 1) : ColumnIsPermutation(sol, c, k)

\* Two guest swaps have been made in one call on a parent whose columns
\* mutations had already reordered, and the child differs from the parent.
GuestColumnsArePermutationsWitness ==
    /\ call_args.op = "_mutate_solution"
    /\ call_result.outcome = "returned"
    /\ Len(call_result.draw.swaps) = 2
    /\ \E c \in 1..Len(call_args.parent_solution) :
         call_args.parent_solution[c][1].guest_indices[1] # 0
    /\ \E c \in 1..Len(call_result.mutated_solution) :
         call_result.mutated_solution[c][1].guest_indices[1]
           # call_args.parent_solution[c][1].guest_indices[1]

(***************************************************************************)
(* The scores of a population, index by index.                             *)
(***************************************************************************)
\* The list after holds at every index a score at least as high as the
\* list before.
NowhereWorse(before, after) ==
    /\ Len(after) = Len(before)
    /\ \A k \in DOMAIN before : ScoreGeq(after[k].score, before[k].score)

\* C29: every insertion attempt of _insert_into_generation_list on a
\* best-first population leaves at every index of the population a score
\* greater than or equal to the score the index held before the attempt.
InsertionNeverLowersScore ==
    (call_args.op = "_insert_into_generation_list" /\ call_result # NoResult)
    => NowhereWorse(call_args.generation_list, call_result.generation_list)

\* A child has been inserted into a population of three, and an index
\* other than the first holds a higher score than before.
InsertionNeverLowersScoreWitness ==
    /\ call_args.op = "_insert_into_generation_list"
    /\ call_result.outcome = "returned"
    /\ call_result.inserted
    /\ Len(call_args.generation_list) = 3
    /\ \E k \in 2..3 : ScoreLess(call_args.generation_list[k].score,
                                 call_result.generation_list[k].score)

\* In a run of optimize no step lowers the score at any index of new_gen or
\* of current_generation: not an insertion attempt, not the copy at the
\* start of a generation step and not its return.
ScoresNeverDecrease ==
    [][/\ NowhereWorse(new_gen, new_gen')
       /\ NowhereWorse(current_generation, current_generation')]_vars

(***************************************************************************)
(* What one call of _mutate_solution changes, checked under SpecMutations. *)
(***************************************************************************)
\* The cells in which two solutions of one shape differ.
CellsChanged(parent, child) ==
    {cell \in Cells(parent) : child[cell[1]][cell[2]] # parent[cell[1]][cell[2]]}

SameCookingTeams(parent, child) ==
    \A cell \in Cells(parent) :
      child[cell[1]][cell[2]].cooking_team = parent[cell[1]][cell[2]].cooking_team

SameGuestIndices(parent, child) ==
    \A cell \in Cells(parent) :
      child[cell[1]][cell[2]].guest_indices = parent[cell[1]][cell[2]].guest_indices

\* The child is the parent with the cooking teams of two distinct cells
\* exchanged: it differs from the parent in exactly these two cells.
HostsExchanged(parent, child) ==
    /\ SameGuestIndices(parent, child)
    /\ Cardinality(CellsChanged(parent, child)) = 2
    /\ \E cell1, cell2 \in CellsChanged(parent, child) :
         /\ cell1 # cell2
         /\ child[cell1[1]][cell1[2]].cooking_team
              = parent[cell2[1]][cell2[2]].cooking_team
         /\ child[cell2[1]][cell2[2]].cooking_team
              = parent[cell1[1]][cell1[2]].cooking_team

\* Each swap is of two distinct groups of one course in one column; the
\* child differs from the parent only in the columns and groups of the
\* swaps, every column keeps its values, each as often as before, and a
\* single swap leaves the two values of its column exchanged.
GuestsExchanged(parent, child, swaps) ==
    /\ SameCookingTeams(parent, child)
    /\ Len(swaps) \in 1..MealGroupCountOf(parent)
    /\ \A j \in DOMAIN swaps :
         /\ swaps[j].guest1 # swaps[j].guest2
         /\ swaps[j].course \in 1..Len(parent)
         /\ swaps[j].index \in 1..(Len(parent) - 1)
    /\ \A c \in 1..Len(parent) : \A k \in 1..(Len(parent) - 1) :
         /\ \A q \in 1..Len(parent[c]) :
              child[c][q].guest_indices[k] # parent[c][q].guest_indices[k]
                => \E j \in DOMAIN swaps :
                     /\ swaps[j].course = c
                     /\ swaps[j].index = k
                     /\ q \in {swaps[j].guest1, swaps[j].guest2}
         /\ \A v \in 0..(Len(parent[c]) - 1) :
              Cardinality({q \in 1..Len(parent[c]) : child[c][q].guest_indices[k] = v})
                = Cardinality({q \in 1..Len(parent[c]) : parent[c][q].guest_indices[k] = v})
    /\ Len(swaps) = 1
         => LET swap == swaps[1]
            IN  /\ child[swap.course][swap.guest1].guest_indices[swap.index]
                     = parent[swap.course][swap.guest2].guest_indices[swap.index]
                /\ child[swap.course][swap.guest2].guest_indices[swap.index]
                     = parent[swap.course][swap.guest1].guest_indices[swap.index]

\* C30: one call of _mutate_solution changes cooking_team values only or
\* guest_indices only: in the host-swap branch the child differs from the
\* parent in exactly two distinct cells, whose cooking teams are exchanged,
\* and all guest_indices are unchanged; in the guest-swap branch all
\* cooking teams are unchanged and each of the 1..meal_group_count swaps
\* exchanges the value of one column between two distinct groups of one
\* course.
MutationChangesOneKind ==
    (call_args.op = "_mutate_solution" /\ call_result.outcome = "returned")
    => IF call_result.draw.mutate_dinner_hosts
       THEN HostsExchanged(call_args.parent_solution, call_result.mutated_solution)
       ELSE GuestsExchanged(call_args.parent_solution, call_result.mutated_solution,
                            call_result.draw.swaps)

\* The hosts of two cells of different courses have been exchanged in a
\* solution whose guest indices earlier mutations had reordered.
MutationChangesOneKindWitness ==
    /\ call_args.op = "_mutate_solution"
    /\ call_result.outcome = "returned"
    /\ call_result.draw.mutate_dinner_hosts
    /\ call_result.draw.course1 # call_result.draw.course2
    /\ \E cell \in Cells(call_args.parent_solution) :
         call_args.parent_solution[cell[1]][cell[2]].guest_indices[1] # cell[2] - 1

====
